---------------------------- MODULE Spec2Model ----------------------------
(***************************************************************************)
(* A model of the personal-assistant program: the field validators, the    *)
(* contact Record, the AddressBook, the Note and NoteBook, the command     *)
(* handlers with their input_error wrapper, the command registry and the   *)
(* main loop with its saves.                                               *)
(*                                                                         *)
(* Text is a sequence of one-character strings, so that validation,        *)
(* parsing and formatting are computed and not assumed.  Messages shown to *)
(* the user are sequences of message parts.                                *)
(***************************************************************************)
EXTENDS Integers, Sequences, FiniteSets, TLC

VARIABLES
    book,     \* AddressBook.data: the entries in insertion order
    notes,    \* NoteBook.notes: the notes in storage order
    last,     \* the last call made: its name, arguments, clock and result
    pc,       \* main(): the position of the control thread
    disk,     \* the two files: [ab |-> ..., nb |-> ...]
    hist      \* main(): what the run has done (commands run, final saves)

vars == <<book, notes, last, pc, disk, hist>>

-----------------------------------------------------------------------------
(* Characters and text *)

\* U+00B2 SUPERSCRIPT TWO: str.isdigit() is True for it and it is no ASCII digit.
Sup2 == "sup2"

AsciiDigits == {"0", "1", "2", "3", "4", "5", "6", "7", "8", "9"}

\* The characters for which str.isdigit() is True.
IsDigitChars == AsciiDigits \cup {Sup2}

\* str.isdigit(): every character is a digit and there is at least one.
IsDigit(s) == Len(s) > 0 /\ \A i \in 1..Len(s) : s[i] \in IsDigitChars

DigitVal(c) ==
    CASE c = "0" -> 0 [] c = "1" -> 1 [] c = "2" -> 2 [] c = "3" -> 3
      [] c = "4" -> 4 [] c = "5" -> 5 [] c = "6" -> 6 [] c = "7" -> 7
      [] c = "8" -> 8 [] c = "9" -> 9

DigitChar(n) ==
    CASE n = 0 -> "0" [] n = 1 -> "1" [] n = 2 -> "2" [] n = 3 -> "3"
      [] n = 4 -> "4" [] n = 5 -> "5" [] n = 6 -> "6" [] n = 7 -> "7"
      [] n = 8 -> "8" [] n = 9 -> "9"

\* str.lower() on the characters the model uses.
LowerChar(c) ==
    CASE c = "A" -> "a" [] c = "B" -> "b" [] c = "C" -> "c" [] c = "X" -> "x" [] OTHER -> c

Lower(s) == [i \in 1..Len(s) |-> LowerChar(s[i])]

\* `sub in s` for strings.
Contains(sub, s) ==
    \E i \in 0..(Len(s) - Len(sub)) : SubSeq(s, i + 1, i + Len(sub)) = sub

\* c repeated n times.
Rep(c, n) == [i \in 1..n |-> c]

\* " ".join(parts) and ",".join(parts).
RECURSIVE Join(_, _)
Join(sep, parts) ==
    IF parts = <<>> THEN <<>>
    ELSE IF Len(parts) = 1 THEN parts[1]
    ELSE parts[1] \o sep \o Join(sep, Tail(parts))

\* Python's truth value of a string or a list: non-empty.
Truthy(s) == s # <<>>

-----------------------------------------------------------------------------
(* Field validators (address_book.py) *)

\* validate_phone with `>=` for `==`
ValidatePhoneAtLeast(phone) == IsDigit(phone) /\ Len(phone) >= 10

\* Phone.validate_phone
validate_phone(phone) == IsDigit(phone) /\ Len(phone) = 10

\* Email.validate_email: re.match(r"[^@]+@[^@]+\.[^@]+", email), a match of a
\* prefix of the text.
validate_email(email) ==
    \E p \in 2..Len(email) :
        /\ email[p] = "@"
        /\ \A i \in 1..(p - 1) : email[i] # "@"
        /\ \E q \in (p + 2)..(Len(email) - 1) :
            /\ email[q] = "."
            /\ \A i \in (p + 1)..q : email[i] # "@"
            /\ email[q + 1] # "@"

-----------------------------------------------------------------------------
(* Calendar dates (datetime.date) *)

Date(y, m, d) == [y |-> y, m |-> m, d |-> d]

IsLeap(y) == (y % 4 = 0 /\ y % 100 # 0) \/ y % 400 = 0

DaysInMonth(y, m) ==
    IF m = 2 THEN (IF IsLeap(y) THEN 29 ELSE 28)
    ELSE IF m \in {4, 6, 9, 11} THEN 30 ELSE 31

\* The check date(y, m, d) makes: ValueError when it fails.
ValidDate(y, m, d) ==
    /\ y \in 1..9999
    /\ m \in 1..12
    /\ d \in 1..DaysInMonth(y, m)

RECURSIVE DaysBeforeMonth(_, _)
DaysBeforeMonth(y, m) ==
    IF m = 1 THEN 0 ELSE DaysBeforeMonth(y, m - 1) + DaysInMonth(y, m - 1)

DaysBeforeYear(y) ==
    (y - 1) * 365 + ((y - 1) \div 4) - ((y - 1) \div 100) + ((y - 1) \div 400)

\* date.toordinal(): 1 January of year 1 is day 1.
ToOrdinal(dt) == DaysBeforeYear(dt.y) + DaysBeforeMonth(dt.y, dt.m) + dt.d

\* date.weekday(): Monday is 0, Sunday is 6.
Weekday(dt) == (ToOrdinal(dt) + 6) % 7

\* date < date
DateLess(a, b) == ToOrdinal(a) < ToOrdinal(b)

\* date.replace(year=y): ValueError when the day does not exist in year y.
ReplaceYear(dt, y) ==
    IF ValidDate(y, dt.m, dt.d)
    THEN [ok |-> TRUE, date |-> Date(y, dt.m, dt.d)]
    ELSE [ok |-> FALSE, date |-> dt]

NextDay(dt) ==
    IF dt.d < DaysInMonth(dt.y, dt.m) THEN Date(dt.y, dt.m, dt.d + 1)
    ELSE IF dt.m < 12 THEN Date(dt.y, dt.m + 1, 1)
    ELSE Date(dt.y + 1, 1, 1)

\* date + timedelta(days=n), n >= 0
RECURSIVE AddDays(_, _)
AddDays(dt, n) == IF n = 0 THEN dt ELSE AddDays(NextDay(dt), n - 1)

TwoDigits(n) == <<DigitChar((n \div 10) % 10), DigitChar(n % 10)>>

FourDigits(n) ==
    <<DigitChar((n \div 1000) % 10), DigitChar((n \div 100) % 10),
      DigitChar((n \div 10) % 10), DigitChar(n % 10)>>

\* date.strftime("%d.%m.%Y")
Strftime(dt) == TwoDigits(dt.d) \o <<".">> \o TwoDigits(dt.m) \o <<".">> \o FourDigits(dt.y)

\* The day, month and year directives of _strptime: the texts each accepts.
\* %d is 3[0-1]|[1-2]\d|0[1-9]|[1-9]| [1-9]
StrptimeDay(t) ==
    \/ Len(t) = 2 /\ t[1] = "3" /\ t[2] \in {"0", "1"}
    \/ Len(t) = 2 /\ t[1] \in {"1", "2"} /\ t[2] \in AsciiDigits
    \/ Len(t) = 2 /\ t[1] = "0" /\ t[2] \in AsciiDigits \ {"0"}
    \/ Len(t) = 1 /\ t[1] \in AsciiDigits \ {"0"}
    \/ Len(t) = 2 /\ t[1] = " " /\ t[2] \in AsciiDigits \ {"0"}

\* %m is 1[0-2]|0[1-9]|[1-9]
StrptimeMonth(t) ==
    \/ Len(t) = 2 /\ t[1] = "1" /\ t[2] \in {"0", "1", "2"}
    \/ Len(t) = 2 /\ t[1] = "0" /\ t[2] \in AsciiDigits \ {"0"}
    \/ Len(t) = 1 /\ t[1] \in AsciiDigits \ {"0"}

\* %Y is \d\d\d\d
StrptimeYear(t) == Len(t) = 4 /\ \A i \in 1..4 : t[i] \in AsciiDigits

\* int() of a text of digits, with a leading space allowed
RECURSIVE IntOf(_)
IntOf(t) ==
    IF t = <<>> THEN 0
    ELSE IF t[Len(t)] = " " THEN 0
    ELSE 10 * IntOf(SubSeq(t, 1, Len(t) - 1)) + DigitVal(t[Len(t)])

\* datetime.strptime(value, "%d.%m.%Y").date(): the whole text must match, and
\* the date must exist.
Strptime(value) ==
    LET splits == {<<i, j>> \in (1..2) \X (1..2) :
                      /\ Len(value) = i + j + 6
                      /\ value[i + 1] = "."
                      /\ value[i + j + 2] = "."
                      /\ StrptimeDay(SubSeq(value, 1, i))
                      /\ StrptimeMonth(SubSeq(value, i + 2, i + j + 1))
                      /\ StrptimeYear(SubSeq(value, i + j + 3, i + j + 6))}
    IN  IF splits = {} THEN [ok |-> FALSE, date |-> Date(1, 1, 1)]
        ELSE LET ij == CHOOSE x \in splits : TRUE
                 d == IntOf(SubSeq(value, 1, ij[1]))
                 m == IntOf(SubSeq(value, ij[1] + 2, ij[1] + ij[2] + 1))
                 y == IntOf(SubSeq(value, ij[1] + ij[2] + 3, ij[1] + ij[2] + 6))
             IN  IF ValidDate(y, m, d)
                 THEN [ok |-> TRUE, date |-> Date(y, m, d)]
                 ELSE [ok |-> FALSE, date |-> Date(1, 1, 1)]

-----------------------------------------------------------------------------
(* Field objects.  An optional field is <<>> (None) or <<field>>.          *)

None == <<>>
Some(x) == <<x>>

\* Phone(value): the stored value, or ValueError
Phone(value) ==
    IF validate_phone(value)
    THEN [ok |-> TRUE, value |-> value]
    ELSE [ok |-> FALSE, value |-> value]

\* Email(value)
Email(value) ==
    IF validate_email(value)
    THEN [ok |-> TRUE, value |-> value]
    ELSE [ok |-> FALSE, value |-> value]

\* The object Birthday(value) builds from what strptime made of the text
Parsed(value, p) == [ok |-> p.ok, value |-> value, date |-> p.date]

\* Birthday(value): keeps the text and the parsed date
Birthday(value) == Parsed(value, Strptime(value))

\* Birthday.__str__
BirthdayStr(b) == Strftime(b.date)

PhoneError == <<"Phone number must contain exactly 10 digits">>
EmailError == <<"Invalid email format">>
BirthdayError == <<"Invalid date format. Use DD.MM.YYYY">>

-----------------------------------------------------------------------------
(* Record (address_book.py) *)

\* What a method call gives: the object after the call, the exception it
\* raised ("none" when it returned) and the exception's text.
Done(rec) == [exc |-> "none", rec |-> rec, msg |-> <<>>]
Fail(rec, exc, msg) == [exc |-> exc, rec |-> rec, msg |-> msg]

\* Record.__init__
Record(name) ==
    [name |-> name, phones |-> <<>>, birthday |-> None, email |-> None,
     address |-> None]

\* Record.find_phone: the position of the first phone with that value, 0 for None
find_phone(rec, phone) ==
    IF \E i \in 1..Len(rec.phones) : rec.phones[i] = phone
    THEN CHOOSE i \in 1..Len(rec.phones) :
            /\ rec.phones[i] = phone
            /\ \A j \in 1..(i - 1) : rec.phones[j] # phone
    ELSE 0

\* list.remove of the element at position i
RemoveAt(seq, i) == SubSeq(seq, 1, i - 1) \o SubSeq(seq, i + 1, Len(seq))

\* Record.add_phone
Record_add_phone(rec, phone) ==
    IF Phone(phone).ok
    THEN Done([rec EXCEPT !.phones = Append(@, Phone(phone).value)])
    ELSE Fail(rec, "ValueError", PhoneError)

\* Record.remove_phone
Record_remove_phone(rec, phone) ==
    LET i == find_phone(rec, phone)
    IN  IF i # 0
        THEN Done([rec EXCEPT !.phones = RemoveAt(@, i)])
        ELSE Fail(rec, "ValueError", <<"Phone ">> \o phone \o <<" not found">>)

\* Record.edit_phone, were it to write to the last phone with the old value
RecordEditPhoneLast(rec, old_phone, new_phone) ==
    LET held == {k \in 1..Len(rec.phones) : rec.phones[k] = old_phone}
    IN  IF held # {}
        THEN IF Phone(new_phone).ok
             THEN Done([rec EXCEPT
                          !.phones[CHOOSE k \in held : \A j \in held : j <= k]
                              = Phone(new_phone).value])
             ELSE Fail(rec, "ValueError", PhoneError)
        ELSE Fail(rec, "ValueError", <<"Phone ">> \o old_phone \o <<" not found">>)

\* Record.edit_phone
Record_edit_phone(rec, old_phone, new_phone) ==
    LET i == find_phone(rec, old_phone)
    IN  IF i # 0
        THEN IF Phone(new_phone).ok
             THEN Done([rec EXCEPT !.phones[i] = Phone(new_phone).value])
             ELSE Fail(rec, "ValueError", PhoneError)
        ELSE Fail(rec, "ValueError", <<"Phone ">> \o old_phone \o <<" not found">>)

\* self.birthday = b, for the object b that Birthday(birthday) built
SetBirthday(rec, b) ==
    IF b.ok
    THEN Done([rec EXCEPT !.birthday = Some([value |-> b.value, date |-> b.date])])
    ELSE Fail(rec, "ValueError", BirthdayError)

\* Record.add_birthday
Record_add_birthday(rec, birthday) == SetBirthday(rec, Birthday(birthday))

\* Record.add_email
Record_add_email(rec, email) ==
    IF Email(email).ok
    THEN Done([rec EXCEPT !.email = Some(Email(email).value)])
    ELSE Fail(rec, "ValueError", EmailError)

\* Record.add_address
Record_add_address(rec, address) == Done([rec EXCEPT !.address = Some(address)])

\* Record.edit_field
Record_edit_field(rec, field_name, new_value) ==
    IF field_name = "name" THEN Done([rec EXCEPT !.name = new_value])
    ELSE IF field_name = "email" THEN Record_add_email(rec, new_value)
    ELSE IF field_name = "address" THEN Record_add_address(rec, new_value)
    ELSE IF field_name = "birthday" THEN Record_add_birthday(rec, new_value)
    ELSE Fail(rec, "ValueError", <<"Field '", field_name, "' is not supported for editing.">>)

-----------------------------------------------------------------------------
(* AddressBook (address_book.py): the dict as its entries in insertion order *)

Keys(b) == {b[i].key : i \in 1..Len(b)}

\* The position of key k, 0 when it is no key
KeyIndex(b, k) ==
    IF \E i \in 1..Len(b) : b[i].key = k
    THEN CHOOSE i \in 1..Len(b) : b[i].key = k
    ELSE 0

\* self.data[key] = record: in place for a key the dict has, at the end otherwise
SetItem(b, key, record) ==
    LET i == KeyIndex(b, key)
    IN  IF i # 0 THEN [b EXCEPT ![i] = [key |-> key, rec |-> record]]
        ELSE Append(b, [key |-> key, rec |-> record])

\* del self.data[key]
DelItem(b, key) == RemoveAt(b, KeyIndex(b, key))

\* A change made through a reference to the record stored under key
Mutate(b, key, record) == [b EXCEPT ![KeyIndex(b, key)].rec = record]

\* AddressBook.add_record
add_record(b, record) == SetItem(b, record.name, record)

\* AddressBook.find: None or the record
find(b, name) ==
    IF KeyIndex(b, name) = 0 THEN None ELSE Some(b[KeyIndex(b, name)].rec)

BookDone(b) == [exc |-> "none", book |-> b, msg |-> <<>>]
BookFail(b, exc, msg) == [exc |-> exc, book |-> b, msg |-> msg]

\* AddressBook.delete, were it to drop the entry stored last
DeleteStoredLast(b, name) ==
    IF name \in Keys(b) THEN BookDone(SubSeq(b, 1, Len(b) - 1))
    ELSE BookFail(b, "KeyError", <<"No record with name '">> \o name \o <<"'">>)

\* AddressBook.delete
delete(b, name) ==
    IF name \in Keys(b) THEN BookDone(DelItem(b, name))
    ELSE BookFail(b, "KeyError", <<"No record with name '">> \o name \o <<"'">>)

\* rename_contact without `record.name.value = new_name`
RenameKeyOnly(b, old_name, new_name) ==
    IF old_name \notin Keys(b)
    THEN BookFail(b, "KeyError", <<"Contact '">> \o old_name \o <<"' not found">>)
    ELSE IF new_name \in Keys(b)
    THEN BookFail(b, "ValueError", <<"Contact '">> \o new_name \o <<"' already exists">>)
    ELSE BookDone(DelItem(SetItem(b, new_name, b[KeyIndex(b, old_name)].rec), old_name))

\* rename_contact without `del self.data[old_name]`
RenameKeepingOld(b, old_name, new_name) ==
    IF old_name \notin Keys(b)
    THEN BookFail(b, "KeyError", <<"Contact '">> \o old_name \o <<"' not found">>)
    ELSE IF new_name \in Keys(b)
    THEN BookFail(b, "ValueError", <<"Contact '">> \o new_name \o <<"' already exists">>)
    ELSE BookDone(SetItem(b, new_name,
                          [b[KeyIndex(b, old_name)].rec EXCEPT !.name = new_name]))

\* rename_contact without the test `new_name in self.data`
RenameOverwriting(b, old_name, new_name) ==
    IF old_name \notin Keys(b)
    THEN BookFail(b, "KeyError", <<"Contact '">> \o old_name \o <<"' not found">>)
    ELSE BookDone(DelItem(SetItem(b, new_name,
                                  [b[KeyIndex(b, old_name)].rec EXCEPT !.name = new_name]),
                          old_name))

\* AddressBook.rename_contact
rename_contact(b, old_name, new_name) ==
    IF old_name \notin Keys(b)
    THEN BookFail(b, "KeyError", <<"Contact '">> \o old_name \o <<"' not found">>)
    ELSE IF new_name \in Keys(b)
    THEN BookFail(b, "ValueError", <<"Contact '">> \o new_name \o <<"' already exists">>)
    ELSE LET record == [b[KeyIndex(b, old_name)].rec EXCEPT !.name = new_name]
         IN  BookDone(DelItem(SetItem(b, new_name, record), old_name))

\* A Python argument that is an int or a list
PyInt(n) == [t |-> "int", n |-> n]
PyList(l) == [t |-> "list", n |-> Len(l)]

\* The adjustment with only Sunday taken for the weekend
CelebrationDateSundayOnly(bday) ==
    IF Weekday(bday) > 5 THEN AddDays(bday, 7 - Weekday(bday)) ELSE bday

\* The weekend adjustment of get_upcoming_birthdays: a Saturday (5) or a
\* Sunday (6) moves to the Monday after it
CelebrationDate(bday) ==
    IF Weekday(bday) >= 5 THEN AddDays(bday, 7 - Weekday(bday)) ELSE bday

\* One pass of the loop of get_upcoming_birthdays over the record at position
\* i, with the result so far.
RECURSIVE UpcomingFrom(_, _, _, _, _)
UpcomingFrom(b, i, days_ahead, today, result) ==
    IF i > Len(b) THEN [exc |-> "none", result |-> result]
    ELSE LET record == b[i].rec IN
    IF record.birthday = None THEN UpcomingFrom(b, i + 1, days_ahead, today, result)
    ELSE LET this == ReplaceYear(record.birthday[1].date, today.y) IN
    IF ~this.ok THEN [exc |-> "ValueError", result |-> result]
    ELSE LET next == IF DateLess(this.date, today)
                     THEN ReplaceYear(this.date, today.y + 1)
                     ELSE this
         IN
    IF ~next.ok THEN [exc |-> "ValueError", result |-> result]
    ELSE LET bday == next.date
             delta == ToOrdinal(bday) - ToOrdinal(today)
         IN
    IF ~(0 <= delta) THEN UpcomingFrom(b, i + 1, days_ahead, today, result)
    ELSE IF days_ahead.t # "int" THEN [exc |-> "TypeError", result |-> result]
    ELSE IF ~(delta <= days_ahead.n)
    THEN UpcomingFrom(b, i + 1, days_ahead, today, result)
    ELSE LET celebration_date == CelebrationDate(bday)
         IN  UpcomingFrom(b, i + 1, days_ahead, today,
                 Append(result, [name |-> record.name,
                                 congratulation_date |-> Strftime(celebration_date)]))

\* AddressBook.get_upcoming_birthdays, with date.today() as today
get_upcoming_birthdays(b, days_ahead, today) ==
    UpcomingFrom(b, 1, days_ahead, today, <<>>)

-----------------------------------------------------------------------------
(* Command handlers of the address book (commands.py).  A handler body      *)
(* gives the collection as it leaves it, the exception it raised ("none"    *)
(* when it returned), the text returned or carried by the exception, and    *)
(* the rows handed to the formatter.                                        *)

Return(coll, msg) == [coll |-> coll, exc |-> "none", msg |-> msg, data |-> <<>>]
ReturnData(coll, msg, data) == [coll |-> coll, exc |-> "none", msg |-> msg, data |-> data]
Raise(coll, exc, msg) == [coll |-> coll, exc |-> exc, msg |-> msg, data |-> <<>>]

\* `a, b = args` and `a, b, c = args` with more values than names
TooMany(n) == <<"too many values to unpack (expected ", DigitChar(n), ")">>

NotFound(name) == <<"Contact '">> \o name \o <<"' not found">>

\* The end of a handler that called a method of the record stored under name:
\* the exception goes on to the caller, or the handler returns msg
Updated(b, name, r, msg) ==
    IF r.exc # "none" THEN Raise(b, r.exc, r.msg)
    ELSE Return(Mutate(b, name, r.rec), msg)

\* add_contact up to its record, were it to store a new Record under the name
\* whether or not the book holds one
AddContactRecordAnew(args, b) ==
    [book |-> add_record(b, Record(args[1])),
     message |-> IF find(b, args[1]) = None THEN <<"Contact added.">>
                 ELSE <<"Contact updated.">>,
     exc |-> "none", msg |-> <<>>]

\* add_contact up to its record: found, or created and added to the book
AddContactRecord(args, b) ==
    IF find(b, args[1]) = None
    THEN [book |-> add_record(b, Record(args[1])), message |-> <<"Contact added.">>,
          exc |-> "none", msg |-> <<>>]
    ELSE [book |-> b, message |-> <<"Contact updated.">>, exc |-> "none", msg |-> <<>>]

\* The call record.add_phone(phone) of add_contact left r
Required(s, name, r) ==
    IF r.exc # "none" THEN [s EXCEPT !.exc = r.exc, !.msg = r.msg]
    ELSE [s EXCEPT !.book = Mutate(@, name, r.rec)]

\* A call of add_contact inside try/except ValueError left r
Tried(s, name, r, added, error) ==
    IF r.exc # "none" THEN [s EXCEPT !.message = @ \o error \o r.msg]
    ELSE [s EXCEPT !.book = Mutate(@, name, r.rec), !.message = @ \o added]

\* add_contact: `if phone: record.add_phone(phone)`
AddContactPhone(args, s) ==
    IF Truthy(args[2])
    THEN Required(s, args[1], Record_add_phone(find(s.book, args[1])[1], args[2]))
    ELSE s

\* add_contact: `if email:` and its try/except
AddContactEmail(args, s) ==
    IF s.exc = "none" /\ Len(args) > 2 /\ Truthy(args[3])
    THEN Tried(s, args[1], Record_add_email(find(s.book, args[1])[1], args[3]),
               <<" Email added.">>, <<" Email error: ">>)
    ELSE s

\* add_contact: `if birthday:` and its try/except
AddContactBirthday(args, s) ==
    IF s.exc = "none" /\ Len(args) > 3 /\ Truthy(args[4])
    THEN Tried(s, args[1], Record_add_birthday(find(s.book, args[1])[1], args[4]),
               <<" Birthday added.">>, <<" Birthday error: ">>)
    ELSE s

\* add_contact: `return message`, unless add_phone raised
AddContactEnd(s) ==
    IF s.exc # "none" THEN Raise(s.book, s.exc, s.msg) ELSE Return(s.book, s.message)

\* add_contact
add_contact(args, b) ==
    IF Len(args) < 2
    THEN Raise(b, "ValueError", <<"Please provide both name and phone number. Usage: add-contact <name> <phone> [email] [birthday]">>)
    ELSE AddContactEnd(AddContactBirthday(args,
             AddContactEmail(args, AddContactPhone(args, AddContactRecord(args, b)))))

\* edit_phone
edit_phone(args, b) ==
    IF Len(args) < 3
    THEN Raise(b, "ValueError", <<"Please provide name, old phone, and new phone. Usage: edit-phone <name> <old_phone> <new_phone>">>)
    ELSE IF Len(args) # 3 THEN Raise(b, "ValueError", TooMany(3))
    ELSE LET name == args[1] IN
    IF find(b, name) = None THEN Raise(b, "KeyError", NotFound(name))
    ELSE LET r == Record_edit_phone(find(b, name)[1], args[2], args[3]) IN
    IF r.exc # "none" THEN Raise(b, r.exc, r.msg)
    ELSE Return(Mutate(b, name, r.rec), <<"Phone number updated for ">> \o name \o <<".">>)

\* add_phone
add_phone(args, b) ==
    IF Len(args) < 2
    THEN Raise(b, "ValueError", <<"Please provide name and phone number. Usage: add-phone <name> <phone>">>)
    ELSE IF Len(args) # 2 THEN Raise(b, "ValueError", TooMany(2))
    ELSE LET name == args[1]
             phone == args[2]
         IN
    IF find(b, name) = None THEN Raise(b, "KeyError", NotFound(name))
    ELSE IF find_phone(find(b, name)[1], phone) # 0
    THEN Return(b, <<"Phone number ">> \o phone \o <<" already exists for ">> \o name \o <<".">>)
    ELSE LET r == Record_add_phone(find(b, name)[1], phone) IN
    IF r.exc # "none" THEN Raise(b, r.exc, r.msg)
    ELSE Return(Mutate(b, name, r.rec),
                <<"Phone number ">> \o phone \o <<" added to ">> \o name \o <<".">>)

\* remove_phone
remove_phone(args, b) ==
    IF Len(args) < 2
    THEN Raise(b, "ValueError", <<"Please provide name and phone number. Usage: remove-phone <name> <phone>">>)
    ELSE IF Len(args) # 2 THEN Raise(b, "ValueError", TooMany(2))
    ELSE LET name == args[1]
             phone == args[2]
         IN
    IF find(b, name) = None THEN Raise(b, "KeyError", NotFound(name))
    ELSE IF find_phone(find(b, name)[1], phone) = 0
    THEN Return(b, <<"Phone number ">> \o phone \o <<" not found for ">> \o name \o <<".">>)
    ELSE IF Len(find(b, name)[1].phones) = 1
    THEN Return(b, <<"Cannot remove ">> \o phone \o <<" - it's the only phone number for ">>
                   \o name \o <<". Use delete-contact to remove the entire contact.">>)
    ELSE LET r == Record_remove_phone(find(b, name)[1], phone) IN
    IF r.exc # "none" THEN Raise(b, r.exc, r.msg)
    ELSE Return(Mutate(b, name, r.rec),
                <<"Phone number ">> \o phone \o <<" removed from ">> \o name \o <<".">>)

\* edit_email
edit_email(args, b) ==
    IF Len(args) < 2
    THEN Raise(b, "ValueError", <<"Please provide name and email. Usage: edit-email <name> <new_email>">>)
    ELSE IF Len(args) # 2 THEN Raise(b, "ValueError", TooMany(2))
    ELSE LET name == args[1] IN
    IF find(b, name) = None THEN Raise(b, "KeyError", NotFound(name))
    ELSE LET action == IF find(b, name)[1].email # None THEN "updated" ELSE "added"
             r == Record_add_email(find(b, name)[1], args[2])
         IN
    IF r.exc # "none" THEN Raise(b, r.exc, r.msg)
    ELSE Return(Mutate(b, name, r.rec), <<"Email ", action, " for ">> \o name \o <<".">>)

\* edit_birthday
edit_birthday(args, b) ==
    IF Len(args) < 2
    THEN Raise(b, "ValueError", <<"Please provide name and birthday. Usage: edit-birthday <name> <DD.MM.YYYY>">>)
    ELSE IF Len(args) # 2 THEN Raise(b, "ValueError", TooMany(2))
    ELSE IF find(b, args[1]) = None THEN Raise(b, "KeyError", NotFound(args[1]))
    ELSE Updated(b, args[1], Record_add_birthday(find(b, args[1])[1], args[2]),
                 <<"Birthday ",
                   IF find(b, args[1])[1].birthday # None THEN "updated" ELSE "added",
                   " for ">> \o args[1] \o <<".">>)

\* edit_address
edit_address(args, b) ==
    IF Len(args) < 2
    THEN Raise(b, "ValueError", <<"Please provide name and address. Usage: edit-address <name> <new_address>">>)
    ELSE LET name == args[1]
             address == Join(<<" ">>, Tail(args))
         IN
    IF find(b, name) = None THEN Raise(b, "KeyError", NotFound(name))
    ELSE LET action == IF find(b, name)[1].address # None THEN "updated" ELSE "added"
             r == Record_add_address(find(b, name)[1], address)
         IN  Return(Mutate(b, name, r.rec), <<"Address ", action, " for ">> \o name \o <<".">>)

\* edit_name
edit_name(args, b) ==
    IF Len(args) < 2
    THEN Raise(b, "ValueError", <<"Please provide old name and new name. Usage: edit-name <old_name> <new_name>">>)
    ELSE IF Len(args) # 2 THEN Raise(b, "ValueError", TooMany(2))
    ELSE LET r == rename_contact(b, args[1], args[2]) IN
    IF r.exc # "none" THEN Raise(r.book, r.exc, r.msg)
    ELSE Return(r.book, <<"Contact renamed from '">> \o args[1] \o <<"' to '">> \o args[2] \o <<"'.">>)

\* show_contact
show_contact(args, b) ==
    IF Len(args) < 1
    THEN Raise(b, "ValueError", <<"Please provide a contact name. Usage: show-contact <name>">>)
    ELSE IF find(b, args[1]) = None THEN Raise(b, "KeyError", NotFound(args[1]))
    ELSE ReturnData(b, <<"Contact Details">>, find(b, args[1]))

\* show_contacts
show_contacts(args, b) ==
    IF b = <<>> THEN Return(b, <<"No contacts saved.">>)
    ELSE ReturnData(b, <<>>, [i \in 1..Len(b) |-> b[i].rec])

\* The test search_contacts makes of one record
SearchMatches(record, query) ==
    IF Contains(query, Lower(record.name)) THEN TRUE
    ELSE IF \E i \in 1..Len(record.phones) : Contains(query, record.phones[i]) THEN TRUE
    ELSE IF record.email # None /\ Contains(query, Lower(record.email[1])) THEN TRUE
    ELSE record.address # None /\ Contains(query, Lower(record.address[1]))

\* filter(seq, test), keeping the order
RECURSIVE SelectRecs(_, _)
SelectRecs(seq, query) ==
    IF seq = <<>> THEN <<>>
    ELSE IF SearchMatches(Head(seq), query)
         THEN <<Head(seq)>> \o SelectRecs(Tail(seq), query)
         ELSE SelectRecs(Tail(seq), query)

\* search_contacts
search_contacts(args, b) ==
    IF Len(args) < 1 THEN Raise(b, "ValueError", <<"Please provide a search query.">>)
    ELSE LET query == Lower(Join(<<" ">>, args))
             results == SelectRecs([i \in 1..Len(b) |-> b[i].rec], query)
         IN  IF results # <<>>
             THEN ReturnData(b, <<"Found ", "contact(s):">>, results)
             ELSE Return(b, <<"No contacts found matching '">> \o Join(<<" ">>, args) \o <<"'.">>)

\* delete_contact
delete_contact(args, b) ==
    IF Len(args) < 1
    THEN Raise(b, "ValueError", <<"Please provide a contact name. Usage: delete-contact <name>">>)
    ELSE LET r == delete(b, args[1]) IN
    IF r.exc = "KeyError" THEN Raise(r.book, "KeyError", NotFound(args[1]))
    ELSE Return(r.book, <<"Contact '">> \o args[1] \o <<"' deleted.">>)

\* text.strip() of spaces
RECURSIVE LStrip(_)
LStrip(t) == IF t # <<>> /\ Head(t) = " " THEN LStrip(Tail(t)) ELSE t
RECURSIVE RStrip(_)
RStrip(t) == IF t # <<>> /\ t[Len(t)] = " " THEN RStrip(SubSeq(t, 1, Len(t) - 1)) ELSE t
Strip(t) == RStrip(LStrip(t))

\* int(text): spaces around, an optional sign, then decimal digits
ParseInt(text) ==
    LET t == Strip(text)
        signed == t # <<>> /\ Head(t) \in {"+", "-"}
        digits == IF signed THEN Tail(t) ELSE t
    IN  IF digits # <<>> /\ \A i \in 1..Len(digits) : digits[i] \in AsciiDigits
        THEN [ok |-> TRUE,
              n |-> IF signed /\ Head(t) = "-" THEN 0 - IntOf(digits) ELSE IntOf(digits)]
        ELSE [ok |-> FALSE, n |-> 0]

\* str(n) for n >= 0
RECURSIVE IntStr(_)
IntStr(n) == IF n < 10 THEN <<DigitChar(n)>> ELSE IntStr(n \div 10) \o <<DigitChar(n % 10)>>

\* birthdays after its call of get_upcoming_birthdays, which left upcoming
BirthdaysReport(b, number_days, upcoming) ==
    IF upcoming.exc = "ValueError"
    THEN Raise(b, "ValueError", <<"day is out of range for month">>)
    ELSE IF upcoming.exc = "TypeError"
    THEN Raise(b, "TypeError", <<"'<=' not supported between instances of 'int' and 'list'">>)
    ELSE IF upcoming.result = <<>>
    THEN Return(b, <<"No upcoming birthdays in the next ">> \o IntStr(number_days) \o <<" days.">>)
    ELSE ReturnData(b, <<"Upcoming Birthdays:">>, upcoming.result)

\* birthdays after int(args[0]), which left parsed
BirthdaysFor(args, b, today, parsed) ==
    IF ~parsed.ok
    THEN Raise(b, "ValueError", <<"Number of days must be a valid integer.">>)
    ELSE IF parsed.n < 0 THEN Raise(b, "ValueError", <<"Number of days must be positive.">>)
    ELSE BirthdaysReport(b, parsed.n, get_upcoming_birthdays(b, PyList(args), today))

\* birthdays, with date.today() as today
birthdays(args, b, today) ==
    IF Len(args) < 1 THEN Raise(b, "ValueError", <<"Please provide the number of days.">>)
    ELSE BirthdaysFor(args, b, today, ParseInt(args[1]))

-----------------------------------------------------------------------------
(* Note and NoteBook (note_book.py) *)

\* Note.__init__
Note(title, content, tags) == [title |-> title, content |-> content, tags |-> tags]

InSeq(x, seq) == \E i \in 1..Len(seq) : seq[i] = x

\* The position of the first element equal to x, 0 when there is none
FirstIndex(x, seq) ==
    IF InSeq(x, seq)
    THEN CHOOSE i \in 1..Len(seq) : seq[i] = x /\ \A j \in 1..(i - 1) : seq[j] # x
    ELSE 0

\* Note.add_tag without its test `if tag not in self.tags`
NoteAddTagAlways(note, tag) ==
    [note |-> [note EXCEPT !.tags = Append(@, tag)],
     msg |-> <<"Tag '">> \o tag \o <<"' added to note '">> \o note.title \o <<"'.">>]

\* Note.add_tag: the note after the call and the text returned
Note_add_tag(note, tag) ==
    [note |-> IF ~InSeq(tag, note.tags) THEN [note EXCEPT !.tags = Append(@, tag)] ELSE note,
     msg |-> <<"Tag '">> \o tag \o <<"' added to note '">> \o note.title \o <<"'.">>]

\* Note.remove_tag
Note_remove_tag(note, tag) ==
    IF InSeq(tag, note.tags)
    THEN [note |-> [note EXCEPT !.tags = RemoveAt(@, FirstIndex(tag, @))],
          msg |-> <<"Tag '">> \o tag \o <<"' removed from note '">> \o note.title \o <<"'.">>]
    ELSE [note |-> note,
          msg |-> <<"Tag '">> \o tag \o <<"' not found in note '">> \o note.title \o <<"'.">>]

\* The position of the first note with that title, 0 when there is none
TitleIndex(nb, title) ==
    IF \E i \in 1..Len(nb) : nb[i].title = title
    THEN CHOOSE i \in 1..Len(nb) :
            nb[i].title = title /\ \A j \in 1..(i - 1) : nb[j].title # title
    ELSE 0

\* NoteBook.add
NoteBook_add(nb, note) ==
    [notes |-> Append(nb, note), msg |-> <<"Note added: ">> \o note.title]

\* NoteBook.remove, were it to take out the last note of that title
NoteBookRemoveLast(nb, title) ==
    LET held == {k \in 1..Len(nb) : nb[k].title = title}
    IN  IF held # {}
        THEN [notes |-> RemoveAt(nb, CHOOSE k \in held : \A j \in held : j <= k),
              msg |-> <<"Note '">> \o title \o <<"' removed.">>]
        ELSE [notes |-> nb, msg |-> <<"Note '">> \o title \o <<"' not found.">>]

\* NoteBook.remove
NoteBook_remove(nb, title) ==
    IF TitleIndex(nb, title) # 0
    THEN [notes |-> RemoveAt(nb, TitleIndex(nb, title)),
          msg |-> <<"Note '">> \o title \o <<"' removed.">>]
    ELSE [notes |-> nb, msg |-> <<"Note '">> \o title \o <<"' not found.">>]

\* NoteBook.find: None or the note
NoteBook_find(nb, title) ==
    IF TitleIndex(nb, title) = 0 THEN None ELSE Some(nb[TitleIndex(nb, title)])

\* The test of NoteBook.search
SearchTest(note, query) ==
    Contains(Lower(query), Lower(note.title)) \/ Contains(Lower(query), Lower(note.content))

\* NoteBook.search
RECURSIVE NoteBook_search(_, _)
NoteBook_search(nb, query) ==
    IF nb = <<>> THEN <<>>
    ELSE IF SearchTest(Head(nb), query)
         THEN <<Head(nb)>> \o NoteBook_search(Tail(nb), query)
         ELSE NoteBook_search(Tail(nb), query)

\* NoteBook.edit, were it to test its arguments for truth and not for None
NoteBookEditTruthy(nb, title, new_title, new_content, new_tags) ==
    LET i == TitleIndex(nb, title) IN
    IF i # 0
    THEN [notes |-> [nb EXCEPT ![i] =
                        [title |-> IF new_title # None /\ Truthy(new_title[1])
                                   THEN new_title[1] ELSE @.title,
                         content |-> IF new_content # None /\ Truthy(new_content[1])
                                     THEN new_content[1] ELSE @.content,
                         tags |-> IF new_tags # None /\ Truthy(new_tags[1])
                                  THEN new_tags[1] ELSE @.tags]],
          msg |-> <<"Note '">> \o title \o <<"' updated.">>]
    ELSE [notes |-> nb, msg |-> <<"Note '">> \o title \o <<"' not found.">>]

\* NoteBook.edit; an argument is None or Some(value)
NoteBook_edit(nb, title, new_title, new_content, new_tags) ==
    LET i == TitleIndex(nb, title) IN
    IF i # 0
    THEN [notes |-> [nb EXCEPT ![i] =
                        [title |-> IF new_title # None THEN new_title[1] ELSE @.title,
                         content |-> IF new_content # None THEN new_content[1] ELSE @.content,
                         tags |-> IF new_tags # None THEN new_tags[1] ELSE @.tags]],
          msg |-> <<"Note '">> \o title \o <<"' updated.">>]
    ELSE [notes |-> nb, msg |-> <<"Note '">> \o title \o <<"' not found.">>]

\* NoteBook.search_by_tag
RECURSIVE NoteBook_search_by_tag(_, _)
NoteBook_search_by_tag(nb, tag) ==
    IF nb = <<>> THEN <<>>
    ELSE IF InSeq(tag, Head(nb).tags)
         THEN <<Head(nb)>> \o NoteBook_search_by_tag(Tail(nb), tag)
         ELSE NoteBook_search_by_tag(Tail(nb), tag)

\* ord(c) of the characters the model uses
CharCode(c) ==
    CASE c = " " -> 32 [] c = "+" -> 43 [] c = "," -> 44 [] c = "-" -> 45
      [] c = "." -> 46 [] c \in AsciiDigits -> 48 + DigitVal(c)
      [] c = "@" -> 64 [] c = "A" -> 65 [] c = "B" -> 66 [] c = "C" -> 67 [] c = "X" -> 88
      [] c = "a" -> 97 [] c = "b" -> 98 [] c = "c" -> 99 [] c = "x" -> 120 [] c = "y" -> 121
      [] c = Sup2 -> 178

\* s < t for strings
RECURSIVE StrLess(_, _)
StrLess(s, t) ==
    IF t = <<>> THEN FALSE
    ELSE IF s = <<>> THEN TRUE
    ELSE IF Head(s) # Head(t) THEN CharCode(Head(s)) < CharCode(Head(t))
    ELSE StrLess(Tail(s), Tail(t))

\* sorted(texts): each text goes after every text not greater than it
RECURSIVE InsertText(_, _)
InsertText(x, seq) ==
    IF seq = <<>> THEN <<x>>
    ELSE IF StrLess(x, Head(seq)) THEN <<x>> \o seq
    ELSE <<Head(seq)>> \o InsertText(x, Tail(seq))

RECURSIVE SortedTexts(_)
SortedTexts(seq) ==
    IF seq = <<>> THEN <<>>
    ELSE InsertText(seq[Len(seq)], SortedTexts(SubSeq(seq, 1, Len(seq) - 1)))

\* The key of sort_by_tag, were the tags joined in the order they are stored
TagKeyAsStored(note) == Join(<<",">>, note.tags)

\* The key of sort_by_tag: ','.join(sorted(note.tags))
TagKey(note) == Join(<<",">>, SortedTexts(note.tags))

\* sorted(notes, key=TagKey): stable, a note goes after every note whose key
\* is not greater
RECURSIVE InsertNote(_, _)
InsertNote(x, seq) ==
    IF seq = <<>> THEN <<x>>
    ELSE IF StrLess(TagKey(x), TagKey(Head(seq))) THEN <<x>> \o seq
    ELSE <<Head(seq)>> \o InsertNote(x, Tail(seq))

\* NoteBook.sort_by_tag
RECURSIVE NoteBook_sort_by_tag(_)
NoteBook_sort_by_tag(nb) ==
    IF nb = <<>> THEN <<>>
    ELSE InsertNote(nb[Len(nb)], NoteBook_sort_by_tag(SubSeq(nb, 1, Len(nb) - 1)))

-----------------------------------------------------------------------------
(* Command handlers of the note book (commands.py) *)

\* text.split(sep) for a one-character sep
RECURSIVE Split(_, _)
Split(t, sep) ==
    IF \E i \in 1..Len(t) : t[i] = sep
    THEN LET i == CHOOSE k \in 1..Len(t) : t[k] = sep /\ \A j \in 1..(k - 1) : t[j] # sep
         IN  <<SubSeq(t, 1, i - 1)>> \o Split(SubSeq(t, i + 1, Len(t)), sep)
    ELSE <<t>>

\* [tag.strip() for tag in parts if tag.strip()]
RECURSIVE StripAll(_)
StripAll(parts) ==
    IF parts = <<>> THEN <<>>
    ELSE IF Truthy(Strip(Head(parts))) THEN <<Strip(Head(parts))>> \o StripAll(Tail(parts))
    ELSE StripAll(Tail(parts))

\* add_note
add_note(args, nb) ==
    IF Len(args) < 2
    THEN Raise(nb, "ValueError", <<"Please provide a title and content for the note.">>)
    ELSE LET tags == IF Len(args) > 2 THEN StripAll(Split(args[3], ",")) ELSE <<>>
             r == NoteBook_add(nb, Note(args[1], args[2], tags))
         IN  Return(r.notes, r.msg)

\* remove_note
remove_note(args, nb) ==
    IF Len(args) < 1
    THEN Raise(nb, "ValueError", <<"Please provide a title of the note to remove.">>)
    ELSE LET r == NoteBook_remove(nb, args[1]) IN Return(r.notes, r.msg)

\* show_all_notes
show_all_notes(args, nb) ==
    IF Truthy(args) THEN Return(nb, <<"No arguments expected for this command.">>)
    ELSE IF nb = <<>> THEN Return(nb, <<"No notes found.">>)
    ELSE ReturnData(nb, <<>>, nb)

\* show_note
show_note(args, nb) ==
    IF Len(args) < 1
    THEN Raise(nb, "ValueError", <<"Please provide a note title. Usage: show-note <title>">>)
    ELSE IF NoteBook_find(nb, args[1]) = None
    THEN Raise(nb, "KeyError", <<"Note '">> \o args[1] \o <<"' not found">>)
    ELSE ReturnData(nb, <<"Note Details">>, NoteBook_find(nb, args[1]))

\* search_notes
search_notes(args, nb) ==
    IF Len(args) < 1 THEN Raise(nb, "ValueError", <<"Please provide a search query.">>)
    ELSE LET query == Join(<<" ">>, args)
             result == NoteBook_search(nb, query)
         IN  IF result # <<>>
             THEN ReturnData(nb, <<"Found ", "note(s) matching '">> \o query \o <<"':">>, result)
             ELSE Return(nb, <<"No notes found matching '">> \o query \o <<"'.">>)

\* edit_note
edit_note(args, nb) ==
    IF Len(args) < 1
    THEN Raise(nb, "ValueError", <<"Please provide the title of the note to edit.">>)
    ELSE LET title == args[1]
             new_title == IF Len(args) > 1 THEN Some(args[2]) ELSE None
             new_content == IF Len(args) > 2
                            THEN Some(Join(<<" ">>, SubSeq(args, 3, Len(args))))
                            ELSE None
             new_tags == IF Len(args) > 3 THEN Some(SubSeq(args, 4, Len(args))) ELSE None
             r == NoteBook_edit(nb, title, new_title, new_content, new_tags)
         IN  Return(r.notes, r.msg)

\* search_notes_by_tag
search_notes_by_tag(args, nb) ==
    IF Len(args) < 1 THEN Raise(nb, "ValueError", <<"Please provide a tag to search for.">>)
    ELSE LET tag == args[1]
             result == NoteBook_search_by_tag(nb, tag)
         IN  IF result # <<>>
             THEN ReturnData(nb, <<"Found ", "note(s) with tag '">> \o tag \o <<"':">>, result)
             ELSE Return(nb, <<"No notes found with tag '">> \o tag \o <<"'.">>)

\* sort_notes_by_tag: returns the sorted list itself
sort_notes_by_tag(args, nb) ==
    IF Truthy(args) THEN Raise(nb, "ValueError", <<"No arguments expected for this command.">>)
    ELSE ReturnData(nb, <<>>, NoteBook_sort_by_tag(nb))

\* add_tag_to_note
add_tag_to_note(args, nb) ==
    IF Len(args) < 2
    THEN Raise(nb, "ValueError", <<"Please provide a title and a tag to add.">>)
    ELSE LET i == TitleIndex(nb, args[1]) IN
    IF i = 0 THEN Raise(nb, "KeyError", <<"Note '">> \o args[1] \o <<"' not found">>)
    ELSE LET r == Note_add_tag(nb[i], args[2])
         IN  Return([nb EXCEPT ![i] = r.note], r.msg)

\* remove_tag_from_note
remove_tag_from_note(args, nb) ==
    IF Len(args) < 2
    THEN Raise(nb, "ValueError", <<"Please provide a title and a tag to remove.">>)
    ELSE LET i == TitleIndex(nb, args[1]) IN
    IF i = 0 THEN Raise(nb, "KeyError", <<"Note '">> \o args[1] \o <<"' not found">>)
    ELSE LET r == Note_remove_tag(nb[i], args[2])
         IN  Return([nb EXCEPT ![i] = r.note], r.msg)

-----------------------------------------------------------------------------
(* input_error (commands.py) *)

\* The exception classes the handlers raise that derive from Exception
ExceptionClasses == {"ValueError", "KeyError", "IndexError", "TypeError"}

\* What the caller of a handler gets: the collection after the call, the
\* exception that reached the caller ("none" when a value was returned), the
\* value's text and rows.
Outcome(coll, raised, msg, data) ==
    [coll |-> coll, raised |-> raised, msg |-> msg, data |-> data]

\* input_error without its last clause `except Exception`
InputErrorOfThreeClasses(r) ==
    IF r.exc = "none" THEN Outcome(r.coll, "none", r.msg, r.data)
    ELSE IF r.exc = "ValueError" THEN Outcome(r.coll, "none", <<"Error: ">> \o r.msg, <<>>)
    ELSE IF r.exc = "KeyError" THEN Outcome(r.coll, "none", <<"Item not found.">>, <<>>)
    ELSE IF r.exc = "IndexError"
    THEN Outcome(r.coll, "none", <<"Not enough arguments provided.">>, <<>>)
    ELSE Outcome(r.coll, r.exc, r.msg, <<>>)

\* input_error's inner(): r is what the decorated body did
input_error(r) ==
    IF r.exc = "none" THEN Outcome(r.coll, "none", r.msg, r.data)
    ELSE IF r.exc = "ValueError" THEN Outcome(r.coll, "none", <<"Error: ">> \o r.msg, <<>>)
    ELSE IF r.exc = "KeyError" THEN Outcome(r.coll, "none", <<"Item not found.">>, <<>>)
    ELSE IF r.exc = "IndexError"
    THEN Outcome(r.coll, "none", <<"Not enough arguments provided.">>, <<>>)
    ELSE IF r.exc \in ExceptionClasses
    THEN Outcome(r.coll, "none", <<"Unexpected error: ">> \o r.msg, <<>>)
    ELSE Outcome(r.coll, r.exc, r.msg, <<>>)

\* The first part of every text the wrapper itself produces
ErrorPrefixes ==
    {"Error: ", "Item not found.", "Not enough arguments provided.", "Unexpected error: "}

-----------------------------------------------------------------------------
(* The command registry (command_registry.py) *)

GeneralCommands == {"help", "exit", "close"}

AddressBookCommands ==
    {"add-contact", "edit-phone", "add-phone", "remove-phone", "edit-email",
     "edit-birthday", "edit-address", "edit-name", "show-contact", "show-contacts",
     "search-contacts", "delete-contact", "birthdays"}

NoteBookCommands ==
    {"add-note", "remove-note", "show-all-notes", "show-note", "search-notes",
     "edit-note", "search-notes-by-tag", "sort-notes-by-tag", "add-tag-to-note",
     "remove-tag-from-note"}

\* The names _register_all_commands registers
CommandNames == GeneralCommands \cup AddressBookCommands \cup NoteBookCommands

\* The registrations with save_addressbook=True left out of edit-name
SaveAddressbookFlagButRename(name) ==
    name \in {"add-contact", "edit-phone", "add-phone", "remove-phone", "edit-email",
              "edit-birthday", "edit-address", "delete-contact"}

\* The save_addressbook flag each registration passes (default False)
SaveAddressbookFlag(name) ==
    name \in {"add-contact", "edit-phone", "add-phone", "remove-phone", "edit-email",
              "edit-birthday", "edit-address", "edit-name", "delete-contact"}

\* The save_notebook flag each registration passes (default False)
SaveNotebookFlag(name) ==
    name \in {"add-note", "remove-note", "edit-note", "add-tag-to-note",
              "remove-tag-from-note"}

\* Command: one entry of the registry
Command(name, handler, category, save_addressbook, save_notebook) ==
    [name |-> name, handler |-> handler, category |-> category,
     save_addressbook |-> save_addressbook, save_notebook |-> save_notebook]

\* self.commands[handler] = Command(...): the entry filed under the handler's
\* name instead of the command's
RegisterUnderHandler(commands, c) ==
    [n \in DOMAIN commands \cup {c.handler} |-> IF n = c.handler THEN c ELSE commands[n]]

\* CommandRegistry._register_command: self.commands[name] = Command(...)
register_command(commands, c) ==
    [n \in DOMAIN commands \cup {c.name} |-> IF n = c.name THEN c ELSE commands[n]]

\* The calls of _register_command in _register_all_commands, in the order of
\* the source: the name, the handler and the category each passes
Registrations ==
    <<<<"help", "lambda", "General">>,
      <<"exit", "lambda", "General">>,
      <<"close", "lambda", "General">>,
      <<"add-contact", "add_contact", "Address Book">>,
      <<"edit-phone", "edit_phone", "Address Book">>,
      <<"add-phone", "add_phone", "Address Book">>,
      <<"remove-phone", "remove_phone", "Address Book">>,
      <<"edit-email", "edit_email", "Address Book">>,
      <<"edit-birthday", "edit_birthday", "Address Book">>,
      <<"edit-address", "edit_address", "Address Book">>,
      <<"edit-name", "edit_name", "Address Book">>,
      <<"show-contact", "show_contact", "Address Book">>,
      <<"show-contacts", "show_contacts", "Address Book">>,
      <<"search-contacts", "search_contacts", "Address Book">>,
      <<"delete-contact", "delete_contact", "Address Book">>,
      <<"birthdays", "birthdays", "Address Book">>,
      <<"add-note", "add_note", "Note Book">>,
      <<"remove-note", "remove_note", "Note Book">>,
      <<"show-all-notes", "show_all_notes", "Note Book">>,
      <<"show-note", "show_note", "Note Book">>,
      <<"search-notes", "search_notes", "Note Book">>,
      <<"edit-note", "edit_note", "Note Book">>,
      <<"search-notes-by-tag", "search_notes_by_tag", "Note Book">>,
      <<"sort-notes-by-tag", "sort_notes_by_tag", "Note Book">>,
      <<"add-tag-to-note", "add_tag_to_note", "Note Book">>,
      <<"remove-tag-from-note", "remove_tag_from_note", "Note Book">>>>

\* The registry after the first k calls, from the empty dict of __init__
RECURSIVE Registered(_)
Registered(k) ==
    IF k = 0 THEN <<>>
    ELSE register_command(Registered(k - 1),
                          Command(Registrations[k][1], Registrations[k][2],
                                  Registrations[k][3],
                                  SaveAddressbookFlag(Registrations[k][1]),
                                  SaveNotebookFlag(Registrations[k][1])))

\* CommandRegistry._register_all_commands
register_all_commands == Registered(Len(Registrations))

\* CommandRegistry.commands: name -> Command
Registry == register_all_commands

\* CommandRegistry.get_command: self.commands.get(name)
get_command(name) == IF name \in DOMAIN Registry THEN <<Registry[name]>> ELSE <<>>

\* CommandRegistry.is_valid_command
is_valid_command(name) == name \in DOMAIN Registry

\* The handler each registration binds, called on the collection its
\* signature names; the three general handlers are lambdas that take no
\* collection and are not wrapped by input_error.
HandlerBody(name, args, b, nb, today) ==
    CASE name = "add-contact" -> input_error(add_contact(args, b))
      [] name = "edit-phone" -> input_error(edit_phone(args, b))
      [] name = "add-phone" -> input_error(add_phone(args, b))
      [] name = "remove-phone" -> input_error(remove_phone(args, b))
      [] name = "edit-email" -> input_error(edit_email(args, b))
      [] name = "edit-birthday" -> input_error(edit_birthday(args, b))
      [] name = "edit-address" -> input_error(edit_address(args, b))
      [] name = "edit-name" -> input_error(edit_name(args, b))
      [] name = "show-contact" -> input_error(show_contact(args, b))
      [] name = "show-contacts" -> input_error(show_contacts(args, b))
      [] name = "search-contacts" -> input_error(search_contacts(args, b))
      [] name = "delete-contact" -> input_error(delete_contact(args, b))
      [] name = "birthdays" -> input_error(birthdays(args, b, today))
      [] name = "add-note" -> input_error(add_note(args, nb))
      [] name = "remove-note" -> input_error(remove_note(args, nb))
      [] name = "show-all-notes" -> input_error(show_all_notes(args, nb))
      [] name = "show-note" -> input_error(show_note(args, nb))
      [] name = "search-notes" -> input_error(search_notes(args, nb))
      [] name = "edit-note" -> input_error(edit_note(args, nb))
      [] name = "search-notes-by-tag" -> input_error(search_notes_by_tag(args, nb))
      [] name = "sort-notes-by-tag" -> input_error(sort_notes_by_tag(args, nb))
      [] name = "add-tag-to-note" -> input_error(add_tag_to_note(args, nb))
      [] name = "remove-tag-from-note" -> input_error(remove_tag_from_note(args, nb))
      [] name = "help" -> Outcome(<<>>, "none", <<"Available Commands">>, <<>>)
      [] name \in {"exit", "close"} -> Outcome(<<>>, "none", <<"exit">>, <<>>)

\* What a call of a registered handler leaves: both collections, and what
\* the caller gets.  Handler o was run on the collection of its category.
Collections(name, o, b, nb) ==
    [book |-> IF name \in AddressBookCommands THEN o.coll ELSE b,
     notes |-> IF name \in NoteBookCommands THEN o.coll ELSE nb,
     raised |-> o.raised, msg |-> o.msg, data |-> o.data]

\* A call of a registered handler
CallHandler(name, args, b, nb, today) ==
    Collections(name, HandlerBody(name, args, b, nb, today), b, nb)

-----------------------------------------------------------------------------
(* The texts and dates the commands are run with *)

NameA == <<"A">>
NameB == <<"B">>
NameC == <<"C">>
Names == {NameA, NameB, NameC}
P1 == Rep("1", 10)
P2 == Rep("2", 10)
ShortPhone == Rep("1", 9)
PlusPhone == <<"+">> \o Rep("1", 9)
E1 == <<"a", "@", "b", ".", "c">>
BadEmail == <<"a", "@", "b">>
Bd2 == <<"2", "9", ".", "0", "2", ".", "2", "0", "0", "0">>
Bd3 == <<"0", "2", ".", "0", "3", ".", "1", "9", "8", "5">>
Bd1 == <<"0", "1", ".", "0", "1", ".", "1", "9", "9", "0">>
BadBd == <<"3", "1", ".", "0", "2", ".", "2", "0", "0", "0">>
Addr1 == <<"x">>
Seven == <<"7">>
Zero == <<"0">>
Empty == <<>>
TagX == <<"x">>
TagY == <<"y">>
TagsXY == <<"x", ",", " ", "y">>

\* The days date.today() is taken from: a Monday three days before 2 March in
\* a common year, 2 March itself, the day after it, the same days around 29
\* February of a leap year, and a day at the end of a year.
Todays ==
    {Date(2023, 2, 27), Date(2023, 3, 2), Date(2023, 3, 3), Date(2024, 2, 27),
     Date(2024, 3, 1), Date(2023, 12, 28), Date(2025, 3, 1)}

\* The day last carries when the call reads no clock
NoClock == Date(1, 1, 1)

\* The windows get_upcoming_birthdays is called with
DaysAhead == {0, 3, 7, 366}

\* The phones and optional fields the whole address book may hold in the model
MaxFields == 3

\* The notes and tags the whole note book may hold in the model
MaxNoteParts == 4

-----------------------------------------------------------------------------
(* The state and the steps *)

NoCall ==
    [cmd |-> "", args |-> <<>>, today |-> NoClock, raised |-> "none", msg |-> <<>>,
     data |-> <<>>]

NoFile == [st |-> "missing", obj |-> <<>>]

\* What the run has seen: the event that ended the loop and where the loop
\* stood then, whether a command ran after it, the saves of the finally
\* clause, and whether the latest save of each collection was written
NoHist ==
    [term |-> "none", at |-> "", after |-> 0, saves |-> <<>>,
     ok |-> [ab |-> TRUE, nb |-> TRUE]]

\* The program with two empty collections and no file
Init ==
    /\ book = <<>>
    /\ notes = <<>>
    /\ last = NoCall
    /\ pc = "input"
    /\ disk = [ab |-> NoFile, nb |-> NoFile]
    /\ hist = NoHist

RecordSize(rec) == Len(rec.phones) + Len(rec.email) + Len(rec.birthday) + Len(rec.address)

RECURSIVE BookSize(_)
BookSize(b) == IF b = <<>> THEN 0 ELSE RecordSize(Head(b).rec) + BookSize(Tail(b))

\* The notes and tags of a note book
RECURSIVE NotesSize(_)
NotesSize(nb) == IF nb = <<>> THEN 0 ELSE 1 + Len(Head(nb).tags) + NotesSize(Tail(nb))

WithinBounds(b, nb) == BookSize(b) <= MaxFields /\ NotesSize(nb) <= MaxNoteParts

\* The state after a call that left r
Apply(cmd, args, today, r) ==
    /\ WithinBounds(r.book, r.notes)
    /\ book' = r.book
    /\ notes' = r.notes
    /\ last' = [cmd |-> cmd, args |-> args, today |-> today, raised |-> r.raised,
                msg |-> r.msg, data |-> r.data]
    /\ UNCHANGED <<pc, disk, hist>>

\* A registered command is run on the collections
Do(cmd, args, today) ==
    Apply(cmd, args, today, CallHandler(cmd, args, book, notes, today))

\* One step for each registered address-book command, run with an argument
\* list of the pool given
AddContact(pool) ==
    \E args \in pool :
        /\ is_valid_command("add-contact")
        /\ Do("add-contact", args, NoClock)
EditPhone(pool) ==
    \E args \in pool :
        /\ is_valid_command("edit-phone")
        /\ Do("edit-phone", args, NoClock)
AddPhone(pool) ==
    \E args \in pool :
        /\ is_valid_command("add-phone")
        /\ Do("add-phone", args, NoClock)
RemovePhone(pool) ==
    \E args \in pool :
        /\ is_valid_command("remove-phone")
        /\ Do("remove-phone", args, NoClock)
EditEmail(pool) ==
    \E args \in pool :
        /\ is_valid_command("edit-email")
        /\ Do("edit-email", args, NoClock)
EditBirthday(pool) ==
    \E args \in pool :
        /\ is_valid_command("edit-birthday")
        /\ Do("edit-birthday", args, NoClock)
EditAddress(pool) ==
    \E args \in pool :
        /\ is_valid_command("edit-address")
        /\ Do("edit-address", args, NoClock)
EditName(pool) ==
    \E args \in pool :
        /\ is_valid_command("edit-name")
        /\ Do("edit-name", args, NoClock)
ShowContact(pool) ==
    \E args \in pool :
        /\ is_valid_command("show-contact")
        /\ Do("show-contact", args, NoClock)
ShowContacts(pool) ==
    \E args \in pool :
        /\ is_valid_command("show-contacts")
        /\ Do("show-contacts", args, NoClock)
SearchContacts(pool) ==
    \E args \in pool :
        /\ is_valid_command("search-contacts")
        /\ Do("search-contacts", args, NoClock)
DeleteContact(pool) ==
    \E args \in pool :
        /\ is_valid_command("delete-contact")
        /\ Do("delete-contact", args, NoClock)
Birthdays(pool, days) ==
    \E args \in pool, today \in days :
        /\ is_valid_command("birthdays")
        /\ Do("birthdays", args, today)

\* One step for each registered note-book command and each general command
AddNote(pool) ==
    \E args \in pool :
        /\ is_valid_command("add-note")
        /\ Do("add-note", args, NoClock)
RemoveNote(pool) ==
    \E args \in pool :
        /\ is_valid_command("remove-note")
        /\ Do("remove-note", args, NoClock)
ShowAllNotes(pool) ==
    \E args \in pool :
        /\ is_valid_command("show-all-notes")
        /\ Do("show-all-notes", args, NoClock)
ShowNote(pool) ==
    \E args \in pool :
        /\ is_valid_command("show-note")
        /\ Do("show-note", args, NoClock)
SearchNotes(pool) ==
    \E args \in pool :
        /\ is_valid_command("search-notes")
        /\ Do("search-notes", args, NoClock)
EditNote(pool) ==
    \E args \in pool :
        /\ is_valid_command("edit-note")
        /\ Do("edit-note", args, NoClock)
SearchNotesByTag(pool) ==
    \E args \in pool :
        /\ is_valid_command("search-notes-by-tag")
        /\ Do("search-notes-by-tag", args, NoClock)
SortNotesByTag(pool) ==
    \E args \in pool :
        /\ is_valid_command("sort-notes-by-tag")
        /\ Do("sort-notes-by-tag", args, NoClock)
AddTagToNote(pool) ==
    \E args \in pool :
        /\ is_valid_command("add-tag-to-note")
        /\ Do("add-tag-to-note", args, NoClock)
RemoveTagFromNote(pool) ==
    \E args \in pool :
        /\ is_valid_command("remove-tag-from-note")
        /\ Do("remove-tag-from-note", args, NoClock)
Help(pool) ==
    \E args \in pool :
        /\ is_valid_command("help")
        /\ Do("help", args, NoClock)
Exit(pool) ==
    \E args \in pool :
        /\ is_valid_command("exit")
        /\ Do("exit", args, NoClock)
Close(pool) ==
    \E args \in pool :
        /\ is_valid_command("close")
        /\ Do("close", args, NoClock)

\* The state after a direct call of get_upcoming_birthdays that left r
Called(n, today, r) ==
    /\ last' = [cmd |-> "get_upcoming_birthdays", args |-> <<IntStr(n)>>,
                today |-> today, raised |-> r.exc, msg |-> <<>>, data |-> r.result]
    /\ UNCHANGED <<book, notes, pc, disk, hist>>

\* AddressBook.get_upcoming_birthdays is called with a number of days
GetUpcomingBirthdays(windows, days) ==
    \E n \in windows, today \in days :
        /\ n >= 0
        /\ Called(n, today, get_upcoming_birthdays(book, PyInt(n), today))

\* The registered address-book commands, in any order, from an empty book
Next ==
    \/ AddContact({<<NameA, P1>>, <<NameB, P2>>, <<NameA, ShortPhone>>,
                   <<NameA, P1, E1, Bd3>>, <<NameA>>})
    \/ EditPhone({<<NameA, P1, P2>>, <<NameA, P1, ShortPhone>>})
    \/ AddPhone({<<NameA, P2>>})
    \/ RemovePhone({<<NameA, P1>>})
    \/ EditEmail({<<NameA, E1>>, <<NameA, BadEmail>>})
    \/ EditBirthday({<<NameA, Bd3>>})
    \/ EditAddress({<<NameA, Addr1>>})
    \/ EditName({<<NameA, NameB>>, <<NameB, NameC>>, <<NameC, NameA>>, <<NameA, NameA>>})
    \/ ShowContact({<<NameA>>})
    \/ ShowContacts({<<>>})
    \/ SearchContacts({<<NameA>>})
    \/ DeleteContact({<<NameA>>, <<NameB>>})
    \/ Birthdays({<<Seven>>}, {Date(2023, 2, 27)})

Spec == Init /\ [][Next]_vars

-----------------------------------------------------------------------------
(* Persistence (main.py): a file is missing, holds what pickle.dump wrote   *)
(* of an object, or holds bytes pickle.load cannot read.                    *)

\* What pickle writes of a field object: its class and its attributes
PickleField(class, value) == [class |-> class, value |-> value]

\* What pickle writes of an optional field
PickleOptional(class, field) ==
    IF field = None THEN None ELSE Some(PickleField(class, field[1]))

\* What pickle writes of a Record
PickleRecord(rec) ==
    [class |-> "Record",
     name |-> PickleField("Name", rec.name),
     phones |-> [i \in 1..Len(rec.phones) |-> PickleField("Phone", rec.phones[i])],
     birthday |-> IF rec.birthday = None THEN None
                  ELSE Some([class |-> "Birthday", value |-> rec.birthday[1].value,
                             date |-> rec.birthday[1].date]),
     email |-> PickleOptional("Email", rec.email),
     address |-> PickleOptional("Address", rec.address)]

\* What pickle writes of an AddressBook: the dict, item by item
PickleAddressBook(b) ==
    [class |-> "AddressBook",
     data |-> [i \in 1..Len(b) |-> [key |-> b[i].key, value |-> PickleRecord(b[i].rec)]]]

\* What pickle writes of a NoteBook: the list of notes
PickleNoteBook(nb) ==
    [class |-> "NoteBook",
     notes |-> [i \in 1..Len(nb) |->
                  [class |-> "Note", title |-> nb[i].title, content |-> nb[i].content,
                   tags |-> nb[i].tags]]]

\* The Record pickle.load builds, were the email not among the attributes
\* written
UnpickleRecordWithoutEmail(p) ==
    [name |-> p.name.value,
     phones |-> [i \in 1..Len(p.phones) |-> p.phones[i].value],
     birthday |-> IF p.birthday = None THEN None
                  ELSE Some([value |-> p.birthday[1].value, date |-> p.birthday[1].date]),
     email |-> None,
     address |-> IF p.address = None THEN None ELSE Some(p.address[1].value)]

\* The Record pickle.load builds
UnpickleRecord(p) ==
    [name |-> p.name.value,
     phones |-> [i \in 1..Len(p.phones) |-> p.phones[i].value],
     birthday |-> IF p.birthday = None THEN None
                  ELSE Some([value |-> p.birthday[1].value, date |-> p.birthday[1].date]),
     email |-> IF p.email = None THEN None ELSE Some(p.email[1].value),
     address |-> IF p.address = None THEN None ELSE Some(p.address[1].value)]

\* The AddressBook pickle.load builds
UnpickleAddressBook(p) ==
    [i \in 1..Len(p.data) |-> [key |-> p.data[i].key, rec |-> UnpickleRecord(p.data[i].value)]]

\* The NoteBook pickle.load builds
UnpickleNoteBook(p) ==
    [i \in 1..Len(p.notes) |->
        [title |-> p.notes[i].title, content |-> p.notes[i].content,
         tags |-> p.notes[i].tags]]

\* How a save can end: written, or failed after open() had truncated the file
SaveOutcomes == {"written", "cut short"}

\* The file after `with open(filename, "wb") as f: pickle.dump(obj, f)`
Written(file, pickled, outcome) ==
    IF outcome = "written" THEN [st |-> "pickle", obj |-> pickled]
    ELSE [st |-> "corrupt", obj |-> <<>>]

\* save_addressbook
save_addressbook(file, b, outcome) == Written(file, PickleAddressBook(b), outcome)

\* save_notebook
save_notebook(file, nb, outcome) == Written(file, PickleNoteBook(nb), outcome)

\* load_addressbook: the saved book, or an empty one when the file is
\* missing or cannot be read
load_addressbook(file) ==
    IF file.st = "pickle" THEN UnpickleAddressBook(file.obj) ELSE <<>>

\* load_notebook
load_notebook(file) ==
    IF file.st = "pickle" THEN UnpickleNoteBook(file.obj) ELSE <<>>

-----------------------------------------------------------------------------
(* The command loop (main.py) *)

\* str.lower() of the command words typed in the model
LowerWord(w) ==
    CASE w = "ADD" -> "add" [] w = "Exit" -> "exit" [] w = "Close" -> "close" [] OTHER -> w

\* An input line as shlex.split cuts it: the first part and the other parts.
\* A line of nothing but spaces has no part.
Line(word, rest) == [word |-> word, rest |-> rest]

\* parse_input
parse_input(user_input) ==
    IF user_input.word = "" THEN [command |-> "", args |-> <<>>]
    ELSE [command |-> LowerWord(user_input.word), args |-> user_input.rest]

\* The handlers main.py imports that commands.py no longer defines, after the
\* operations of the same purpose
change_contact(args, b) == edit_phone(args, b)
show_phone(args, b) == show_contact(args, b)
show_all(args, b) == show_contacts(args, b)
add_birthday(args, b) == edit_birthday(args, b)
show_birthday(args, b) == show_contact(args, b)
add_address(args, b) == edit_address(args, b)
add_email(args, b) == edit_email(args, b)

\* The field a text names
FieldNamed(text) ==
    CASE text = <<"n", "a", "m", "e">> -> "name"
      [] text = <<"e", "m", "a", "i", "l">> -> "email"
      [] OTHER -> "other"

edit_fields(args, b) ==
    IF Len(args) < 3 THEN Raise(b, "ValueError", <<"Please provide name, field and value.">>)
    ELSE IF find(b, args[1]) = None THEN Raise(b, "KeyError", NotFound(args[1]))
    ELSE Updated(b, args[1],
                 Record_edit_field(find(b, args[1])[1], FieldNamed(args[2]), args[3]),
                 <<"Field updated.">>)

\* The arms of the match statement that call a handler on the address book,
\* and those that call one on the note book
BookArms ==
    {"add", "change", "phone", "all", "delete", "add-birthday", "add-address",
     "add-email", "edit-fields", "show-birthday"}
NoteArms ==
    {"add-note", "remove-note", "show-all-notes", "search-notes", "edit-note",
     "search-notes-by-tag", "sort-notes-by-tag", "add-tag-to-note", "remove-tag-from-note"}

\* `case "close" | "exit": break` without "close"
BreaksOnExitOnly(command) == command = "exit"

\* The arm `case "close" | "exit": break`
Breaks(command) == command \in {"close", "exit"}

\* The arms that end with save_addressbook(addressbook), less the arm "delete"
SavesAddressbookButDelete(command) ==
    command \in {"add", "change", "add-birthday", "add-address", "add-email", "edit-fields"}

\* The arms that end with save_addressbook(addressbook)
SavesAddressbook(command) ==
    command \in {"add", "change", "delete", "add-birthday", "add-address", "add-email",
                 "edit-fields"}

\* The arms that end with save_notebook(notebook, silentmode=True)
SavesNotebook(command) ==
    command \in {"add-note", "remove-note", "edit-note", "add-tag-to-note",
                 "remove-tag-from-note"}

\* The handler the arm of a command calls on the address book
BookArm(command, args, b) ==
    CASE command = "add" -> input_error(add_contact(args, b))
      [] command = "change" -> input_error(change_contact(args, b))
      [] command = "phone" -> input_error(show_phone(args, b))
      [] command = "all" -> input_error(show_all(args, b))
      [] command = "delete" -> input_error(delete_contact(args, b))
      [] command = "add-birthday" -> input_error(add_birthday(args, b))
      [] command = "add-address" -> input_error(add_address(args, b))
      [] command = "add-email" -> input_error(add_email(args, b))
      [] command = "edit-fields" -> input_error(edit_fields(args, b))
      [] command = "show-birthday" -> input_error(show_birthday(args, b))

\* The handler the arm of a command calls on the note book
NoteArm(command, args, nb) ==
    CASE command = "add-note" -> input_error(add_note(args, nb))
      [] command = "remove-note" -> input_error(remove_note(args, nb))
      [] command = "show-all-notes" -> input_error(show_all_notes(args, nb))
      [] command = "search-notes" -> input_error(search_notes(args, nb))
      [] command = "edit-note" -> input_error(edit_note(args, nb))
      [] command = "search-notes-by-tag" -> input_error(search_notes_by_tag(args, nb))
      [] command = "sort-notes-by-tag" -> input_error(sort_notes_by_tag(args, nb))
      [] command = "add-tag-to-note" -> input_error(add_tag_to_note(args, nb))
      [] command = "remove-tag-from-note" -> input_error(remove_tag_from_note(args, nb))

-----------------------------------------------------------------------------
(* Properties of the address book under the registered commands *)

\* C1: after any sequence of registered address-book commands from an empty
\* book, every key of the book maps to a record whose own name is that key,
\* and no key occurs twice.
KeysAreNames ==
    /\ \A i \in 1..Len(book) : book[i].rec.name = book[i].key
    /\ \A i, j \in 1..Len(book) : book[i].key = book[j].key => i = j

\* A contact was renamed to B by edit-name and is stored under B
RenamedContactStored ==
    /\ last.cmd = "edit-name"
    /\ last.args = <<NameA, NameB>>
    /\ last.msg = <<"Contact renamed from '", "A", "' to '", "B", "'.">>
    /\ find(book, NameB) # None

\* C2: rename_contact(A, B) with A a key and B no key leaves no record under
\* A, the record that was under A, now named B, under B, and every other key
\* with the record it had.
RenameMovesRecord ==
    \A old_name \in Names, new_name \in Names :
        (old_name \in Keys(book) /\ new_name \notin Keys(book)) =>
            LET r == rename_contact(book, old_name, new_name)
            IN  /\ r.exc = "none"
                /\ find(r.book, old_name) = None
                /\ find(r.book, new_name)
                       = Some([find(book, old_name)[1] EXCEPT !.name = new_name])
                /\ Keys(r.book) = (Keys(book) \ {old_name}) \cup {new_name}
                /\ \A k \in Keys(book) \ {old_name} : find(r.book, k) = find(book, k)

\* B was renamed to C by edit-name while the book held another contact
RenamedBesideAnother ==
    /\ last.cmd = "edit-name"
    /\ last.args = <<NameB, NameC>>
    /\ last.msg = <<"Contact renamed from '", "B", "' to '", "C", "'.">>
    /\ Keys(book) = {NameA, NameC}
    /\ find(book, NameA)[1].phones # <<>>

\* C3: rename_contact fails with the not-found error when the old name is no
\* key, and with the conflict error when the new name is a key, the old name
\* itself included; a failed rename leaves the book as it was.
RenameFailures ==
    \A old_name \in Names, new_name \in Names :
        LET r == rename_contact(book, old_name, new_name)
        IN  /\ old_name \notin Keys(book) =>
                   /\ r.exc = "KeyError"
                   /\ r.msg = <<"Contact '">> \o old_name \o <<"' not found">>
            /\ (old_name \in Keys(book) /\ new_name \in Keys(book)) =>
                   /\ r.exc = "ValueError"
                   /\ r.msg = <<"Contact '">> \o new_name \o <<"' already exists">>
            /\ r.exc # "none" => r.book = book

\* edit-name of A to A itself was refused and A is still in the book
RenameToItselfRefused ==
    /\ last.cmd = "edit-name"
    /\ last.args = <<NameA, NameA>>
    /\ last.msg = <<"Error: ", "Contact '", "A", "' already exists">>
    /\ find(book, NameA) # None

\* show-contacts is registered for every state and leaves the book as it
\* is, so every book the commands can build is also the book of a state
\* that show-contacts was the last to run in: the methods are tried on each
\* book in that state
Listed == last.cmd = "show-contacts"

\* C11: edit_phone(old, new) on a record succeeds exactly when old is among
\* the record's phones and new is a valid phone; on success the phone list
\* has the same length, the first slot that held old holds new and every
\* other slot and field is as it was; when old is absent or new is invalid
\* the call fails and the record is unchanged. The edit-phone command changes
\* the book by that record alone, and not at all when the call fails.
EditPhoneReplacesFirst ==
    Listed =>
    \A i \in 1..Len(book), old_phone \in {P1, P2, ShortPhone},
       new_phone \in {P1, P2, ShortPhone, PlusPhone} :
        LET rec == book[i].rec
            r == Record_edit_phone(rec, old_phone, new_phone)
            o == CallHandler("edit-phone", <<rec.name, old_phone, new_phone>>,
                             book, notes, NoClock)
        IN  /\ r.exc = "none" <=>
                  /\ \E k \in 1..Len(rec.phones) : rec.phones[k] = old_phone
                  /\ validate_phone(new_phone)
            /\ r.exc = "none" =>
                  /\ Len(r.rec.phones) = Len(rec.phones)
                  /\ \E k \in 1..Len(rec.phones) :
                        /\ rec.phones[k] = old_phone
                        /\ \A j \in 1..(k - 1) : rec.phones[j] # old_phone
                        /\ r.rec.phones[k] = new_phone
                        /\ \A j \in 1..Len(rec.phones) :
                              j # k => r.rec.phones[j] = rec.phones[j]
                  /\ r.rec = [rec EXCEPT !.phones = r.rec.phones]
                  /\ o.book = [book EXCEPT ![i].rec = r.rec]
                  /\ o.msg = <<"Phone number updated for ">> \o rec.name \o <<".">>
            /\ r.exc # "none" =>
                  /\ r.exc = "ValueError"
                  /\ r.rec = rec
                  /\ o.book = book
                  /\ o.msg = <<"Error: ">> \o r.msg

\* edit-phone replaced the first of two equal phones of A and left the second
EditedFirstOfTwo ==
    /\ last.cmd = "edit-phone"
    /\ last.args = <<NameA, P1, P2>>
    /\ last.msg = <<"Phone number updated for ">> \o NameA \o <<".">>
    /\ find(book, NameA) # None
    /\ find(book, NameA)[1].phones = <<P2, P1>>

\* What delete-contact N and show-contact N do to the book of this state, for
\* every name N
DeleteContactRemovesOne ==
    Listed =>
    \A name \in Names :
        LET o == CallHandler("delete-contact", <<name>>, book, notes, NoClock)
            shown == CallHandler("show-contact", <<name>>, book, notes, NoClock)
        IN  /\ name \in Keys(book) =>
                  /\ o.msg = <<"Contact '">> \o name \o <<"' deleted.">>
                  /\ Keys(o.book) = Keys(book) \ {name}
                  /\ Len(o.book) = Len(book) - 1
                  /\ \A k \in Keys(book) \ {name} : find(o.book, k) = find(book, k)
                  /\ CallHandler("show-contact", <<name>>, o.book, notes, NoClock).msg
                        = <<"Item not found.">>
                  /\ shown.msg # <<"Item not found.">>
            /\ name \notin Keys(book) =>
                  /\ o.msg = <<"Item not found.">>
                  /\ o.book = book
                  /\ shown.msg = <<"Item not found.">>

\* A name that is no key becomes a key only when add-contact or edit-name
\* stores a record under it
KeyReturnsWhenStored ==
    \A name \in Names :
        (name \notin Keys(book) /\ name \in Keys(book')) =>
            \/ last'.cmd = "add-contact" /\ last'.args[1] = name
            \/ last'.cmd = "edit-name" /\ last'.args[2] = name

\* C12: delete-contact N on a book containing N removes exactly the entry N
\* and leaves every other entry as it was, and show-contact N reports
\* not-found for as long as no record is stored under N again; delete-contact
\* N when N is absent reports not-found and leaves the book unchanged.
DeleteContactThenNotFound ==
    []DeleteContactRemovesOne /\ [][KeyReturnsWhenStored]_vars

\* delete-contact removed A from a book that still holds B and its phone
DeletedBesideAnother ==
    /\ last.cmd = "delete-contact"
    /\ last.args = <<NameA>>
    /\ last.msg = <<"Contact '">> \o NameA \o <<"' deleted.">>
    /\ Keys(book) = {NameB}
    /\ find(book, NameB)[1].phones # <<>>

\* C13: add-contact N P with a valid phone P and N no key of the book returns
\* "Contact added." and stores a record named N whose phones are exactly
\* <<P>>; with N a key it returns "Contact updated.", keeps the record and
\* its other fields and appends P to its phones; no other record is changed
\* in either case.
AddContactAddsOrUpdates ==
    Listed =>
    \A name \in Names, phone \in {P1, P2} :
        LET o == CallHandler("add-contact", <<name, phone>>, book, notes, NoClock)
        IN  /\ validate_phone(phone)
            /\ o.raised = "none"
            /\ name \notin Keys(book) =>
                  /\ Head(o.msg) = "Contact added."
                  /\ find(o.book, name) = Some([Record(name) EXCEPT !.phones = <<phone>>])
                  /\ Keys(o.book) = Keys(book) \cup {name}
                  /\ Len(o.book) = Len(book) + 1
            /\ name \in Keys(book) =>
                  /\ Head(o.msg) = "Contact updated."
                  /\ find(o.book, name)
                        = Some([find(book, name)[1] EXCEPT !.phones = Append(@, phone)])
                  /\ Keys(o.book) = Keys(book)
                  /\ Len(o.book) = Len(book)
            /\ \A k \in Keys(book) \ {name} : find(o.book, k) = find(book, k)

\* add-contact A P1 found A with a phone and an email, kept both and appended
\* P1
ContactUpdatedKeepsFields ==
    /\ last.cmd = "add-contact"
    /\ last.args = <<NameA, P1>>
    /\ last.msg = <<"Contact updated.">>
    /\ find(book, NameA) # None
    /\ find(book, NameA)[1].phones = <<P1, P1>>
    /\ find(book, NameA)[1].email # None

\* C25: after any sequence of registered address-book commands no record
\* holds the same phone string twice.
NoPhoneHeldTwice ==
    \A i \in 1..Len(book) :
        \A j, k \in 1..Len(book[i].rec.phones) :
            j # k => book[i].rec.phones[j] # book[i].rec.phones[k]

\* C27: after any sequence of registered address-book commands every record
\* in the address book has at least one phone.
EveryRecordHasPhone ==
    \A i \in 1..Len(book) : Len(book[i].rec.phones) >= 1

-----------------------------------------------------------------------------
(* Phone construction on texts of every shape *)

\* The longest run of digits a phone text is built from
MaxPhoneLen == 17

\* The text t with the character at position i replaced by c
Replaced(t, i, c) == [t EXCEPT ![i] = c]

\* Runs of digits of every length up to MaxPhoneLen, the same after a '+',
\* and each run with one character replaced by a letter, a space, a dash, a
\* '+' or a digit that is not an ASCII digit
PhoneTexts ==
    {Rep("1", n) : n \in 0..MaxPhoneLen}
        \cup {<<"+">> \o Rep("1", n) : n \in 0..MaxPhoneLen}
        \cup UNION {{Replaced(Rep("1", n), i, c) :
                        i \in {1, 2, 10, n} \cap 1..n, c \in {"a", " ", "-", "+", Sup2}} :
                     n \in 1..MaxPhoneLen}

InitPhone ==
    /\ book = <<>>
    /\ notes = <<>>
    /\ pc = "input"
    /\ disk = [ab |-> NoFile, nb |-> NoFile]
    /\ hist = NoHist
    /\ \E value \in PhoneTexts : last = [NoCall EXCEPT !.cmd = "value", !.args = <<value>>]

\* The state after Phone(value) built p or raised
Constructed(value, p) ==
    /\ last' = [cmd |-> "Phone", args |-> <<value>>, today |-> NoClock,
                raised |-> IF p.ok THEN "none" ELSE "ValueError",
                msg |-> IF p.ok THEN <<>> ELSE PhoneError,
                data |-> IF p.ok THEN <<p.value>> ELSE <<>>]
    /\ UNCHANGED <<book, notes, pc, disk, hist>>

\* Phone(value) is called on the text drawn
ConstructPhone ==
    /\ last.cmd = "value"
    /\ Constructed(last.args[1], Phone(last.args[1]))

\* Record(name).add_phone(value) is called on the text drawn
RecordAddPhone ==
    /\ last.cmd = "value"
    /\ LET r == Record_add_phone(Record(NameA), last.args[1])
       IN  last' = [cmd |-> "add_phone", args |-> last.args, today |-> NoClock,
                    raised |-> r.exc, msg |-> r.msg, data |-> r.rec.phones]
    /\ UNCHANGED <<book, notes, pc, disk, hist>>

NextPhone == ConstructPhone \/ RecordAddPhone

SpecPhone == InitPhone /\ [][NextPhone]_vars

AllAsciiDigits(t) == \A i \in 1..Len(t) : t[i] \in AsciiDigits

\* The phone texts the specification text accepts
ClaimedPhone(t) ==
    \/ Len(t) = 10 /\ AllAsciiDigits(t)
    \/ /\ t # <<>>
       /\ Head(t) = "+"
       /\ Len(t) - 1 \in 7..15
       /\ AllAsciiDigits(Tail(t))
    \/ Len(t) \in 11..16 /\ AllAsciiDigits(t)

-----------------------------------------------------------------------------
(* Upcoming birthdays: contacts with and without birthdays, on several days *)

NextBirthdays ==
    \/ AddContact({<<NameA, P1>>, <<NameA, Empty, Empty, Bd3>>,
                   <<NameB, Empty, Empty, Bd2>>, <<NameC, Empty, Empty, Bd1>>})
    \/ EditBirthday({<<NameA, Bd1>>, <<NameC, Bd3>>})
    \/ DeleteContact({<<NameA>>, <<NameB>>})
    \/ Birthdays({<<Seven>>, <<Zero>>}, Todays)
    \/ GetUpcomingBirthdays(DaysAhead, Todays)

SpecBirthdays == Init /\ [][NextBirthdays]_vars

\* The text of the entries birthdays found none of
NoUpcoming(msg) == msg # <<>> /\ Head(msg) = "No upcoming birthdays in the next "

\* C5: the birthdays command called with a valid non-negative integer N
\* reports exactly the entries get_upcoming_birthdays(N) computes for the
\* book, and reports that there are no upcoming birthdays only when there
\* are none.
BirthdaysReportsUpcoming ==
    (/\ last.cmd = "birthdays"
     /\ ParseInt(last.args[1]).ok
     /\ ParseInt(last.args[1]).n >= 0) =>
        LET upcoming == get_upcoming_birthdays(book, PyInt(ParseInt(last.args[1]).n),
                                               last.today)
        IN  /\ last.data = upcoming.result
            /\ NoUpcoming(last.msg) => upcoming.result = <<>>

\* Whether the month and day of a birthday occur in year y
Occurs(bd, y) == ValidDate(y, bd.m, bd.d)

\* The days from today to the next occurrence of the birthday's month and
\* day: this year's if it is not before today, next year's otherwise
DeltaDays(bd, today) ==
    IF ~DateLess(Date(today.y, bd.m, bd.d), today)
    THEN ToOrdinal(Date(today.y, bd.m, bd.d)) - ToOrdinal(today)
    ELSE ToOrdinal(Date(today.y + 1, bd.m, bd.d)) - ToOrdinal(today)

\* Whether a record is due within days_ahead days of today
Due(rec, days_ahead, today) ==
    /\ rec.birthday # None
    /\ DeltaDays(rec.birthday[1].date, today) \in 0..days_ahead

\* The names of the records of b that are due, in the book's order
RECURSIVE DueNames(_, _, _)
DueNames(b, days_ahead, today) ==
    IF b = <<>> THEN <<>>
    ELSE IF Due(Head(b).rec, days_ahead, today)
         THEN <<Head(b).rec.name>> \o DueNames(Tail(b), days_ahead, today)
         ELSE DueNames(Tail(b), days_ahead, today)

\* C6: get_upcoming_birthdays(daysAhead) returns an entry for a record if and
\* only if the record has a birthday and the days from today to the next
\* occurrence of its month and day are between 0 and daysAhead inclusive; a
\* birthday that is today is included and a record without a birthday never.
UpcomingAreTheDue ==
    last.cmd = "get_upcoming_birthdays" =>
        /\ last.raised = "none"
        /\ [i \in 1..Len(last.data) |-> last.data[i].name]
              = DueNames(book, ParseInt(last.args[1]).n, last.today)

\* The same for the books in which every birthday's month and day occur in
\* the year of today and in the year after
UpcomingAreTheDueWhenOccurring ==
    (/\ last.cmd = "get_upcoming_birthdays"
     /\ \A i \in 1..Len(book) :
           book[i].rec.birthday # None =>
               /\ Occurs(book[i].rec.birthday[1].date, last.today.y)
               /\ Occurs(book[i].rec.birthday[1].date, last.today.y + 1)) =>
        /\ last.raised = "none"
        /\ [i \in 1..Len(last.data) |-> last.data[i].name]
              = DueNames(book, ParseInt(last.args[1]).n, last.today)

\* The next occurrence of a birthday's month and day from today on
Occurrence(bd, today) ==
    IF ~DateLess(Date(today.y, bd.m, bd.d), today)
    THEN Date(today.y, bd.m, bd.d)
    ELSE Date(today.y + 1, bd.m, bd.d)

\* The day of the week by the count of days: 1 January of year 1 was a
\* Monday, so the remainders 1 to 5 are Monday to Friday, 6 is Saturday and
\* 0 is Sunday
DayOfWeek(dt) == ToOrdinal(dt) % 7

\* The birthday of the record an entry names
BirthdayOf(b, name) == b[KeyIndex(b, name)].rec.birthday[1].date

\* The text DD.MM.YYYY of the day n days after dt
TextOfDayAfter(dt, n) ==
    LET day == Date(dt.y, dt.m, dt.d + n)
        next == IF ValidDate(day.y, day.m, day.d) THEN day
                ELSE IF dt.m = 12 THEN Date(dt.y + 1, 1, dt.d + n - DaysInMonth(dt.y, 12))
                ELSE Date(dt.y, dt.m + 1, dt.d + n - DaysInMonth(dt.y, dt.m))
    IN  TwoDigits(next.d) \o <<".">> \o TwoDigits(next.m) \o <<".">> \o FourDigits(next.y)

\* C26: every congratulation date returned by get_upcoming_birthdays is a
\* Monday to Friday: the occurrence itself when that is a weekday, the first
\* Monday after it (2 or 1 days later) when it is a Saturday or a Sunday;
\* and the date is formatted DD.MM.YYYY.
CongratulationOnWeekday ==
    last.cmd \in {"get_upcoming_birthdays", "birthdays"} =>
        \A i \in 1..Len(last.data) :
            LET entry == last.data[i]
                occ == Occurrence(BirthdayOf(book, entry.name), last.today)
                shift == IF DayOfWeek(occ) = 6 THEN 2
                         ELSE IF DayOfWeek(occ) = 0 THEN 1 ELSE 0
            IN  /\ entry.congratulation_date = TextOfDayAfter(occ, shift)
                /\ Len(entry.congratulation_date) = 10
                /\ Strptime(entry.congratulation_date).ok
                /\ DayOfWeek(Strptime(entry.congratulation_date).date) \in 1..5

\* Entries were returned for a birthday on a Saturday and for one on a Sunday
CongratulatedAfterWeekend ==
    /\ last.cmd = "get_upcoming_birthdays"
    /\ \/ /\ last.today = Date(2024, 3, 1)
          /\ \E i \in 1..Len(last.data) :
                last.data[i].congratulation_date
                    = <<"0", "4", ".", "0", "3", ".", "2", "0", "2", "4">>
       \/ /\ last.today = Date(2025, 3, 1)
          /\ \E i \in 1..Len(last.data) :
                last.data[i].congratulation_date
                    = <<"0", "3", ".", "0", "3", ".", "2", "0", "2", "5">>

\* C29: get_upcoming_birthdays returns a result without failing for every
\* address book whose birthdays are valid calendar dates and for every value
\* of today, a birthday on 29 February in a year that is not a leap year
\* included.
UpcomingNeverFails ==
    (/\ last.cmd = "get_upcoming_birthdays"
     /\ \A i \in 1..Len(book) :
           book[i].rec.birthday # None =>
               ValidDate(book[i].rec.birthday[1].date.y, book[i].rec.birthday[1].date.m,
                         book[i].rec.birthday[1].date.d)) =>
        last.raised = "none"

-----------------------------------------------------------------------------
(* Every registered command, on both collections *)

NextAll ==
    \/ AddContact({<<NameA, P1>>})
    \/ EditPhone({<<NameA, P1, P2>>})
    \/ AddPhone({<<NameA, P2>>})
    \/ RemovePhone({<<NameA, P1>>})
    \/ EditEmail({<<NameA, BadEmail>>})
    \/ EditBirthday({<<NameA, Bd3>>})
    \/ EditAddress({<<NameA>>})
    \/ EditName({<<NameA, NameA>>})
    \/ ShowContact({<<NameA>>})
    \/ ShowContacts({<<>>})
    \/ SearchContacts({<<NameA>>})
    \/ DeleteContact({<<NameA>>})
    \/ Birthdays({<<Seven>>}, {Date(2023, 2, 27)})
    \/ AddNote({<<NameA, Addr1, TagY>>, <<NameB, Addr1>>})
    \/ RemoveNote({<<NameA>>})
    \/ ShowAllNotes({<<>>})
    \/ ShowNote({<<NameA>>})
    \/ SearchNotes({<<Addr1>>})
    \/ EditNote({<<NameC>>})
    \/ SearchNotesByTag({<<TagY>>})
    \/ SortNotesByTag({<<>>})
    \/ AddTagToNote({<<NameB, TagX>>})
    \/ RemoveTagFromNote({<<NameA, TagY>>})
    \/ Help({<<>>})
    \/ Exit({<<>>})
    \/ Close({<<>>})

SpecAll == Init /\ [][NextAll]_vars

\* Argument lists of every length from none to one more than any handler
\* takes, with names and titles the collections hold and do not hold, and
\* valid and invalid field values
ArgLists ==
    {<<>>, <<NameA>>, <<NameC>>, <<NameA, P2>>, <<NameA, NameB>>, <<NameB, TagX>>,
     <<NameA, ShortPhone>>, <<NameA, BadBd>>, <<NameA, P1, P2>>, <<NameA, Addr1, TagsXY>>,
     <<NameA, P2, BadEmail, BadBd>>, <<NameA, P1, E1, Bd3, Addr1>>, <<Seven>>}

\* help is registered for every state and leaves both collections as they
\* are, so every pair of collections the commands can build is also the
\* pair of a state that help was the last to run in: the handlers are tried
\* on each pair in that state
Idle == last.cmd = "help"

\* C8: a registered command changes a collection only if its registry entry
\* has that collection's save flag: for every argument list, a handler whose
\* entry has neither flag leaves both collections as they were, a handler
\* that changes the address book has save_addressbook, and a handler that
\* changes the note book has save_notebook.
ChangesAreFlagged ==
    /\ {name \in CommandNames :
            ~Registry[name].save_addressbook /\ ~Registry[name].save_notebook}
          = {"help", "exit", "close", "show-contact", "show-contacts", "search-contacts",
             "birthdays", "show-all-notes", "show-note", "search-notes",
             "search-notes-by-tag", "sort-notes-by-tag"}
    /\ Idle =>
          \A name \in CommandNames, args \in ArgLists :
             LET r == CallHandler(name, args, book, notes, Date(2023, 2, 27))
             IN  /\ r.book # book => Registry[name].save_addressbook
                 /\ r.notes # notes => Registry[name].save_notebook

\* sort-notes-by-tag ran on two notes that are not in the order of their
\* tags, and left them so
SortedWithoutChange ==
    /\ last.cmd = "sort-notes-by-tag"
    /\ Len(notes) = 2
    /\ NoteBook_sort_by_tag(notes) # notes
    /\ Len(last.data) = 2

\* C10: every command handler, for every argument list and every state of the
\* collections, returns a result to its caller; no exception leaves it.
HandlersAlwaysReturn ==
    /\ last.raised = "none"
    /\ Idle =>
          \A name \in CommandNames, args \in ArgLists :
             CallHandler(name, args, book, notes, Date(2023, 2, 27)).raised = "none"

\* birthdays ran into the comparison of an int with a list, and returned the
\* text of the error
UnexpectedErrorReturned ==
    /\ last.cmd = "birthdays"
    /\ last.raised = "none"
    /\ last.msg # <<>>
    /\ Head(last.msg) = "Unexpected error: "

\* Whether a text is one the error wrapper produces
IsErrorResult(msg) == msg # <<>> /\ Head(msg) \in ErrorPrefixes

\* C28: whenever a command handler returns an error result, the address book
\* and the note book are exactly as they were before the command, for every
\* command and every argument list.
ErrorLeavesCollections ==
    Idle =>
        \A name \in CommandNames, args \in ArgLists :
            LET r == CallHandler(name, args, book, notes, Date(2023, 2, 27))
            IN  IsErrorResult(r.msg) => r.book = book /\ r.notes = notes

\* The same for every command but add-contact
ErrorLeavesCollectionsButAddContact ==
    Idle =>
        \A name \in CommandNames \ {"add-contact"}, args \in ArgLists :
            LET r == CallHandler(name, args, book, notes, Date(2023, 2, 27))
            IN  IsErrorResult(r.msg) => r.book = book /\ r.notes = notes

-----------------------------------------------------------------------------
(* The note-book commands on notes with equal titles and equal tags *)

\* The text of two equal tags, as add-note takes it
TagsYY == <<"y", ",", "y">>

NextNotes ==
    \/ AddNote({<<NameA, Addr1>>, <<NameA, Addr1, TagsYY>>, <<NameB, Addr1, TagsXY>>})
    \/ RemoveNote({<<NameA>>, <<NameC>>})
    \/ ShowAllNotes({<<>>})
    \/ ShowNote({<<NameA>>})
    \/ SearchNotes({<<Addr1>>})
    \/ EditNote({<<NameA>>, <<NameA, NameB>>, <<NameA, NameA, TagY>>,
                 <<NameB, NameA, Addr1, TagX, TagY>>, <<NameC, NameA>>})
    \/ SearchNotesByTag({<<TagY>>, <<TagX>>})
    \/ SortNotesByTag({<<>>})
    \/ AddTagToNote({<<NameA, TagX>>, <<NameA, TagY>>, <<NameB, TagX>>})
    \/ RemoveTagFromNote({<<NameA, TagY>>, <<NameB, TagX>>})

SpecNotes == Init /\ [][NextNotes]_vars

\* C14: once remove-tag-from-note T g has reported that tag g was removed
\* from the note found by title T, search-notes-by-tag g does not return that
\* note.
RemovedTagNotSearched ==
    (/\ last.cmd = "remove-tag-from-note"
     /\ last.msg = <<"Tag '">> \o last.args[2] \o <<"' removed from note '">>
                      \o last.args[1] \o <<"'.">>) =>
        /\ TitleIndex(notes, last.args[1]) # 0
        /\ ~InSeq(notes[TitleIndex(notes, last.args[1])],
                  NoteBook_search_by_tag(notes, last.args[2]))

\* show-all-notes is registered for every state and leaves the notes as they
\* are, so every note book the commands can build is also the note book of a
\* state that show-all-notes was the last to run in: the methods are tried on
\* each note book in that state
Shown == last.cmd = "show-all-notes"

\* C15: Note.add_tag(g) appends g at the end when g is not among the note's
\* tags, leaves the tags as they are when it is, and called twice gives the
\* tags one call gives; add-tag-to-note changes the first note of that title
\* so and no other.
AddTagIdempotent ==
    Shown =>
    \A i \in 1..Len(notes), tag \in {TagX, TagY, NameC} :
        LET note == notes[i]
            once == Note_add_tag(note, tag).note
            twice == Note_add_tag(once, tag).note
        IN  /\ ~InSeq(tag, note.tags) => once = [note EXCEPT !.tags = Append(@, tag)]
            /\ InSeq(tag, note.tags) => once = note
            /\ twice = once
            /\ i = TitleIndex(notes, note.title) =>
                  CallHandler("add-tag-to-note", <<note.title, tag>>, book, notes,
                              NoClock).notes = [notes EXCEPT ![i] = once]

\* add-tag-to-note A x ran on a note that held x before y, and left both
AddedTagAlreadyHeld ==
    /\ last.cmd = "add-tag-to-note"
    /\ last.args = <<NameA, TagX>>
    /\ last.msg = <<"Tag '">> \o TagX \o <<"' added to note '">> \o NameA \o <<"'.">>
    /\ Len(notes) = 1
    /\ notes[1].tags = <<TagX, TagY>>

\* What NoteBook.remove(title) does to the notes when a note has that title:
\* the first such note is gone, the notes before it and after it are as they
\* were and in their order
RemovesFirstOfTitle(title) ==
    LET r == NoteBook_remove(notes, title)
    IN  (\E i \in 1..Len(notes) : notes[i].title = title) =>
            /\ r.msg = <<"Note '">> \o title \o <<"' removed.">>
            /\ Len(r.notes) = Len(notes) - 1
            /\ \E k \in 1..Len(notes) :
                  /\ notes[k].title = title
                  /\ \A j \in 1..(k - 1) : notes[j].title # title /\ r.notes[j] = notes[j]
                  /\ \A j \in k..Len(r.notes) : r.notes[j] = notes[j + 1]
            /\ CallHandler("remove-note", <<title>>, book, notes, NoClock).notes = r.notes

\* C16, as the code has it: NoteBook.remove(title) removes exactly the first
\* note in storage order whose title equals title and leaves every other
\* note, later notes of that title included, in place and in order; when no
\* note has that title it raises nothing, returns the text "Note '<title>'
\* not found." and leaves the note book unchanged.
RemoveFirstOrReportsNotFound ==
    Shown =>
    \A title \in Names :
        /\ RemovesFirstOfTitle(title)
        /\ (\A i \in 1..Len(notes) : notes[i].title # title) =>
              /\ NoteBook_remove(notes, title).notes = notes
              /\ NoteBook_remove(notes, title).msg
                    = <<"Note '">> \o title \o <<"' not found.">>
              /\ remove_note(<<title>>, notes).exc = "none"
              /\ CallHandler("remove-note", <<title>>, book, notes, NoClock).msg
                    = <<"Note '">> \o title \o <<"' not found.">>

\* C16, as the claim has it: the same, with the call failing with a
\* not-found error when no note has that title.
RemoveFirstOrFailsNotFound ==
    Shown =>
    \A title \in Names :
        /\ RemovesFirstOfTitle(title)
        /\ (\A i \in 1..Len(notes) : notes[i].title # title) =>
              /\ NoteBook_remove(notes, title).notes = notes
              /\ remove_note(<<title>>, notes).exc # "none"

\* remove-note A took the first of two notes titled A and left the second,
\* the one with the tags
RemovedFirstOfTwoTitles ==
    /\ last.cmd = "remove-note"
    /\ last.args = <<NameA>>
    /\ last.msg = <<"Note '">> \o NameA \o <<"' removed.">>
    /\ notes = <<Note(NameA, Addr1, <<TagY, TagY>>)>>

\* The arguments NoteBook.edit is tried with: absent, empty and not empty
NewTitles == {None, Some(Empty), Some(NameC)}
NewContents == {None, Some(TagY)}
NewTags == {None, Some(<<>>), Some(<<TagX>>)}

\* What NoteBook.edit does when a note has the title: the first such note
\* gets the arguments that are present and keeps the rest, every other note
\* and the order stay
EditsFirstOfTitle(title, new_title, new_content, new_tags) ==
    LET r == NoteBook_edit(notes, title, new_title, new_content, new_tags)
    IN  (\E i \in 1..Len(notes) : notes[i].title = title) =>
            /\ r.msg = <<"Note '">> \o title \o <<"' updated.">>
            /\ Len(r.notes) = Len(notes)
            /\ \E k \in 1..Len(notes) :
                  /\ notes[k].title = title
                  /\ \A j \in 1..(k - 1) : notes[j].title # title
                  /\ r.notes[k].title
                        = IF new_title = None THEN notes[k].title ELSE new_title[1]
                  /\ r.notes[k].content
                        = IF new_content = None THEN notes[k].content ELSE new_content[1]
                  /\ r.notes[k].tags
                        = IF new_tags = None THEN notes[k].tags ELSE new_tags[1]
                  /\ \A j \in 1..Len(notes) : j # k => r.notes[j] = notes[j]

\* C17, as the code has it: NoteBook.edit changes only the first note whose
\* title equals title, replaces exactly those of its title, content and tags
\* whose argument is present, and changes no other note and not the order;
\* when no note matches it raises nothing, returns the text "Note '<title>'
\* not found." and changes nothing.
EditFirstOrReportsNotFound ==
    Shown =>
    \A title \in Names, new_title \in NewTitles, new_content \in NewContents,
       new_tags \in NewTags :
        /\ EditsFirstOfTitle(title, new_title, new_content, new_tags)
        /\ (\A i \in 1..Len(notes) : notes[i].title # title) =>
              LET r == NoteBook_edit(notes, title, new_title, new_content, new_tags)
              IN  /\ r.notes = notes
                  /\ r.msg = <<"Note '">> \o title \o <<"' not found.">>
                  /\ edit_note(<<title>>, notes).exc = "none"

\* C17, as the claim has it: the same, with the call failing with a
\* not-found error when no note matches.
EditFirstOrFailsNotFound ==
    Shown =>
    \A title \in Names, new_title \in NewTitles, new_content \in NewContents,
       new_tags \in NewTags :
        /\ EditsFirstOfTitle(title, new_title, new_content, new_tags)
        /\ (\A i \in 1..Len(notes) : notes[i].title # title) =>
              /\ NoteBook_edit(notes, title, new_title, new_content, new_tags).notes
                    = notes
              /\ edit_note(<<title>>, notes).exc # "none"

\* edit-note A B gave the first of two notes titled A the title B, kept its
\* content and tags, and left the second
EditedFirstOfTwoTitles ==
    /\ last.cmd = "edit-note"
    /\ last.args = <<NameA, NameB>>
    /\ last.msg = <<"Note '">> \o NameA \o <<"' updated.">>
    /\ notes = <<Note(NameB, Addr1, <<TagY, TagY>>), Note(NameA, Addr1, <<>>)>>

\* The arguments edit-note is tried with after the title: none, a new title,
\* a new content too, and one and two tags after them
EditNoteArgs ==
    {<<>>, <<NameB>>, <<NameB, NameC>>, <<NameB, NameC, TagX>>,
     <<NameB, NameC, TagX, TagY>>}

\* C18: edit-note selects the note by its first argument, and gives it the
\* second argument as title, the third as content and the fourth and later
\* ones as tags, each if it is given; the new content holds nothing of the
\* tag arguments, and what has no argument is unchanged.
EditNoteMapsPositionally ==
    Shown =>
    \A i \in 1..Len(notes), rest \in EditNoteArgs :
        i = TitleIndex(notes, notes[i].title) =>
            LET o == CallHandler("edit-note", <<notes[i].title>> \o rest, book, notes,
                                 NoClock)
            IN  /\ o.msg = <<"Note '">> \o notes[i].title \o <<"' updated.">>
                /\ o.notes[i].title = IF Len(rest) >= 1 THEN rest[1] ELSE notes[i].title
                /\ o.notes[i].content
                      = IF Len(rest) >= 2 THEN rest[2] ELSE notes[i].content
                /\ o.notes[i].tags
                      = IF Len(rest) >= 3 THEN SubSeq(rest, 3, Len(rest))
                        ELSE notes[i].tags

\* The same for at most three arguments, where no tag is given
EditNoteMapsUpToContent ==
    Shown =>
    \A i \in 1..Len(notes), rest \in {r \in EditNoteArgs : Len(r) <= 2} :
        i = TitleIndex(notes, notes[i].title) =>
            LET o == CallHandler("edit-note", <<notes[i].title>> \o rest, book, notes,
                                 NoClock)
            IN  /\ o.notes[i].title = IF Len(rest) >= 1 THEN rest[1] ELSE notes[i].title
                /\ o.notes[i].content
                      = IF Len(rest) >= 2 THEN rest[2] ELSE notes[i].content
                /\ o.notes[i].tags = notes[i].tags

-----------------------------------------------------------------------------
(* NoteBook.sort_by_tag on note books of every order of tags *)

TagA == <<"a">>
TagB == <<"b">>
TagC == <<"c">>

\* The most notes a note book that is sorted holds
MaxSorted == 3

\* The tags of a note: none, one, two in order and out of order, the same
\* tag twice, and a capital letter
TagLists == {<<>>, <<TagA>>, <<TagB>>, <<TagA, TagC>>, <<TagC, TagA>>, <<TagA, TagA>>, <<NameB>>}

\* The note books of up to MaxSorted notes; the note at place i has the
\* title of i digits that tells the notes apart
NoteLists ==
    UNION {{[i \in 1..n |-> Note(Rep("1", i), Addr1, tags[i])] :
               tags \in [1..n -> TagLists]} : n \in 0..MaxSorted}

InitSort ==
    /\ book = <<>>
    /\ notes \in NoteLists
    /\ last = NoCall
    /\ pc = "input"
    /\ disk = [ab |-> NoFile, nb |-> NoFile]
    /\ hist = NoHist

\* NoteBook.sort_by_tag() is called and returns a list
SortByTag ==
    /\ last' = [cmd |-> "sort_by_tag", args |-> <<>>, today |-> NoClock,
                raised |-> "none", msg |-> <<>>, data |-> NoteBook_sort_by_tag(notes)]
    /\ UNCHANGED <<book, notes, pc, disk, hist>>

NextSort ==
    \/ SortByTag
    \/ SortNotesByTag({<<>>})

SpecSort == InitSort /\ [][NextSort]_vars

\* s is in order: no text is before a text that is less
InOrder(s) == \A i, j \in 1..Len(s) : i < j => ~StrLess(s[j], s[i])

\* s and t hold the same elements the same number of times
SameElements(s, t) ==
    /\ Len(s) = Len(t)
    /\ \A i \in 1..Len(s) :
          Cardinality({j \in 1..Len(s) : s[j] = s[i]})
             = Cardinality({j \in 1..Len(t) : t[j] = s[i]})

\* The key the claim gives a note: its tags in alphabetical order, joined by
\* commas
AlphabeticalKey(note) ==
    IF note.tags = <<>> THEN <<>>
    ELSE Join(<<",">>,
              CHOOSE s \in [1..Len(note.tags) -> {note.tags[i] : i \in 1..Len(note.tags)}] :
                  InOrder(s) /\ SameElements(s, note.tags))

\* The place of a note in the note book, by its title
PlaceOf(note) == CHOOSE i \in 1..Len(notes) : notes[i].title = note.title

\* C19: sort_by_tag returns a permutation of the stored notes in the order of
\* the keys made of each note's tags, sorted and joined by commas; notes with
\* equal keys keep their storage order; the stored order and each note's tag
\* order are as before the call, also after sort-notes-by-tag.
SortByTagIsStableByKey ==
    last.cmd = "sort_by_tag" =>
        /\ SameElements(last.data, notes)
        /\ \A i, j \in 1..Len(last.data) :
              i < j =>
                 /\ ~StrLess(AlphabeticalKey(last.data[j]), AlphabeticalKey(last.data[i]))
                 /\ AlphabeticalKey(last.data[j]) = AlphabeticalKey(last.data[i]) =>
                       PlaceOf(last.data[i]) < PlaceOf(last.data[j])
        /\ CallHandler("sort-notes-by-tag", <<>>, book, notes, NoClock).notes = notes
        /\ CallHandler("sort-notes-by-tag", <<>>, book, notes, NoClock).data = last.data

\* Notes tagged b, a and a,c were sorted and came out as a, then a,c, then b
SortedTheExample ==
    /\ last.cmd = "sort_by_tag"
    /\ [i \in 1..Len(notes) |-> notes[i].tags] = <<<<TagB>>, <<TagA>>, <<TagA, TagC>>>>
    /\ [i \in 1..Len(last.data) |-> last.data[i].tags]
          = <<<<TagA>>, <<TagA, TagC>>, <<TagB>>>>

-----------------------------------------------------------------------------
(* Saving a collection and loading it from the file saved *)

\* save_addressbook(book) is called; the text in last tells how the writing
\* ended, and last keeps the book that was saved
CallSaveAddressbook ==
    \E outcome \in SaveOutcomes :
        /\ disk' = [disk EXCEPT !.ab = save_addressbook(@, book, outcome)]
        /\ last' = [cmd |-> "save_addressbook", args |-> <<>>, today |-> NoClock,
                    raised |-> "none", msg |-> <<outcome>>, data |-> book]
        /\ UNCHANGED <<book, notes, pc, hist>>

\* load_addressbook() is called next, and the program goes on with its result
CallLoadAddressbook ==
    /\ last.cmd = "save_addressbook"
    /\ book' = load_addressbook(disk.ab)
    /\ last' = [last EXCEPT !.cmd = "load_addressbook"]
    /\ UNCHANGED <<notes, pc, disk, hist>>

\* save_notebook(notebook) is called
CallSaveNotebook ==
    \E outcome \in SaveOutcomes :
        /\ disk' = [disk EXCEPT !.nb = save_notebook(@, notes, outcome)]
        /\ last' = [cmd |-> "save_notebook", args |-> <<>>, today |-> NoClock,
                    raised |-> "none", msg |-> <<outcome>>, data |-> notes]
        /\ UNCHANGED <<book, notes, pc, hist>>

\* load_notebook() is called next
CallLoadNotebook ==
    /\ last.cmd = "save_notebook"
    /\ notes' = load_notebook(disk.nb)
    /\ last' = [last EXCEPT !.cmd = "load_notebook"]
    /\ UNCHANGED <<book, pc, disk, hist>>

NextRoundTrip ==
    \/ AddContact({<<NameA, P1, E1, Bd3>>, <<NameB, P2>>})
    \/ EditAddress({<<NameB, Addr1>>})
    \/ DeleteContact({<<NameA>>})
    \/ AddNote({<<NameA, Addr1, TagsXY>>, <<NameB, Addr1>>})
    \/ RemoveNote({<<NameA>>})
    \/ CallSaveAddressbook
    \/ CallLoadAddressbook
    \/ CallSaveNotebook
    \/ CallLoadNotebook

SpecRoundTrip == Init /\ [][NextRoundTrip]_vars

-----------------------------------------------------------------------------
(* Loading from a file that is missing, unreadable or saved *)

\* pickle.load(f): the object written, or the error of bytes that are no
\* pickle
PickleLoad(file) ==
    IF file.st = "pickle" THEN [exc |-> "none", obj |-> file.obj]
    ELSE [exc |-> "UnpicklingError", obj |-> <<>>]

\* `except Exception` of the load functions, were it `except FileNotFoundError`
ExceptFileNotFound(exc) == exc = "FileNotFoundError"

\* `except Exception as e` of the load functions
ExceptException(exc) == exc \in {"UnpicklingError", "EOFError", "FileNotFoundError"}

\* What the try statement of a load function gives its caller for what
\* pickle.load did: the exception that leaves it, and whether the object
\* loaded is returned or a new collection
TryLoad(file, loaded) ==
    IF file.st = "missing" THEN [raised |-> "none", fresh |-> TRUE]
    ELSE IF loaded.exc = "none" THEN [raised |-> "none", fresh |-> FALSE]
    ELSE IF ExceptException(loaded.exc) THEN [raised |-> "none", fresh |-> TRUE]
    ELSE [raised |-> loaded.exc, fresh |-> TRUE]

\* The files of the address book and of the note book a run may find
BookFiles ==
    {NoFile, [st |-> "corrupt", obj |-> <<>>],
     save_addressbook(NoFile, <<>>, "written"),
     save_addressbook(NoFile, add_record(<<>>, [Record(NameA) EXCEPT !.phones = <<P1>>]),
                      "written")}
NoteFiles ==
    {NoFile, [st |-> "corrupt", obj |-> <<>>],
     save_notebook(NoFile, <<>>, "written"),
     save_notebook(NoFile, <<Note(NameA, Addr1, <<TagX>>)>>, "written")}

\* The collections the program holds when it loads: none yet, or one loaded
\* before
InitLoad ==
    /\ disk \in [ab : BookFiles, nb : NoteFiles]
    /\ book \in {<<>>, add_record(<<>>, Record(NameB))}
    /\ notes \in {<<>>, <<Note(NameB, Addr1, <<>>)>>}
    /\ last = NoCall
    /\ pc = "input"
    /\ hist = NoHist

\* book = load_addressbook()
LoadAddressbook ==
    /\ book' = load_addressbook(disk.ab)
    /\ last' = [cmd |-> "load_addressbook", args |-> <<>>, today |-> NoClock,
                raised |-> TryLoad(disk.ab, PickleLoad(disk.ab)).raised,
                msg |-> <<disk.ab.st>>, data |-> notes]
    /\ UNCHANGED <<notes, pc, disk, hist>>

\* notebook = load_notebook()
LoadNotebook ==
    /\ notes' = load_notebook(disk.nb)
    /\ last' = [cmd |-> "load_notebook", args |-> <<>>, today |-> NoClock,
                raised |-> TryLoad(disk.nb, PickleLoad(disk.nb)).raised,
                msg |-> <<disk.nb.st>>, data |-> book]
    /\ UNCHANGED <<book, pc, disk, hist>>

NextLoad == LoadAddressbook \/ LoadNotebook

SpecLoad == InitLoad /\ [][NextLoad]_vars

\* C21: a load raises nothing; from a file that is missing or cannot be
\* deserialized it gives a new empty collection, from a file that holds a
\* saved collection it gives that collection; the other collection and both
\* files are as they were before the load.
LoadNeverFails ==
    /\ last.raised = "none"
    /\ last.cmd = "load_addressbook" =>
          /\ disk.ab.st \in {"missing", "corrupt"} => book = <<>>
          /\ disk.ab.st = "pickle" => save_addressbook(NoFile, book, "written") = disk.ab
          /\ TryLoad(disk.ab, PickleLoad(disk.ab)).fresh = (disk.ab.st # "pickle")
          /\ notes = last.data
    /\ last.cmd = "load_notebook" =>
          /\ disk.nb.st \in {"missing", "corrupt"} => notes = <<>>
          /\ disk.nb.st = "pickle" => save_notebook(NoFile, notes, "written") = disk.nb
          /\ TryLoad(disk.nb, PickleLoad(disk.nb)).fresh = (disk.nb.st # "pickle")
          /\ book = last.data

\* load_addressbook met a file that is no pickle and gave an empty book, and
\* the notes loaded before it are still there
LoadedEmptyFromCorrupt ==
    /\ last.cmd = "load_addressbook"
    /\ last.msg = <<"corrupt">>
    /\ last.raised = "none"
    /\ book = <<>>
    /\ notes = <<Note(NameA, Addr1, <<TagX>>)>>

-----------------------------------------------------------------------------
(* Email construction on texts of every shape *)

\* The longest text an email is built from
MaxEmailLen == 6

\* Every text of up to MaxEmailLen characters out of a letter, '@' and '.'
EmailTexts == UNION {[1..n -> {"a", "@", "."}] : n \in 0..MaxEmailLen}

InitEmail ==
    /\ book = <<>>
    /\ notes = <<>>
    /\ pc = "input"
    /\ disk = [ab |-> NoFile, nb |-> NoFile]
    /\ hist = NoHist
    /\ \E value \in EmailTexts : last = [NoCall EXCEPT !.cmd = "value", !.args = <<value>>]

\* Email(value) is called on the text drawn
ConstructEmail ==
    /\ last.cmd = "value"
    /\ LET e == Email(last.args[1])
       IN  last' = [cmd |-> "Email", args |-> last.args, today |-> NoClock,
                    raised |-> IF e.ok THEN "none" ELSE "ValueError",
                    msg |-> IF e.ok THEN <<>> ELSE EmailError,
                    data |-> IF e.ok THEN <<e.value>> ELSE <<>>]
    /\ UNCHANGED <<book, notes, pc, disk, hist>>

\* Record(name).add_email(value) is called on the text drawn
RecordAddEmail ==
    /\ last.cmd = "value"
    /\ LET r == Record_add_email(Record(NameA), last.args[1])
       IN  last' = [cmd |-> "add_email", args |-> last.args, today |-> NoClock,
                    raised |-> r.exc, msg |-> r.msg, data |-> r.rec.email]
    /\ UNCHANGED <<book, notes, pc, disk, hist>>

NextEmail == ConstructEmail \/ RecordAddEmail

SpecEmail == InitEmail /\ [][NextEmail]_vars

\* The texts the claim accepts: local@domain with one '@', a local part that
\* is not empty, and in the domain a '.' with something before it and
\* something after it
ClaimedEmail(t) ==
    /\ Cardinality({i \in 1..Len(t) : t[i] = "@"}) = 1
    /\ \E p \in 2..Len(t) :
          /\ t[p] = "@"
          /\ \E q \in (p + 2)..(Len(t) - 1) : t[q] = "."

\* C22: Email construction succeeds exactly for the texts local@domain of
\* the claim, and fails with the validation error for every other text, a
\* text with a second '@' after a valid prefix included.
EmailAcceptsClaimedForm ==
    last.cmd \in {"Email", "add_email"} =>
        IF ClaimedEmail(last.args[1]) THEN last.raised = "none"
        ELSE last.raised = "ValueError"

\* The same for the texts that hold at most one '@'
EmailAcceptsClaimedFormOfOneAt ==
    (/\ last.cmd \in {"Email", "add_email"}
     /\ Cardinality({i \in 1..Len(last.args[1]) : last.args[1][i] = "@"}) <= 1) =>
        IF ClaimedEmail(last.args[1]) THEN last.raised = "none"
        ELSE last.raised = "ValueError"

-----------------------------------------------------------------------------
(* Birthday construction and rendering on texts of every shape *)

\* The C libraries date.strftime hands %Y to: glibc writes the year without
\* padding, the others write four digits
CLibraries == {"glibc", "padding"}

\* %Y of date.strftime
StrftimeYear(y, libc) == IF libc = "glibc" THEN IntStr(y) ELSE FourDigits(y)

\* date.strftime("%d.%m.%Y") on a C library; for the years from 1000 on it is
\* Strftime on every library
StrftimeOn(dt, libc) ==
    TwoDigits(dt.d) \o <<".">> \o TwoDigits(dt.m) \o <<".">> \o StrftimeYear(dt.y, libc)

\* The day, month and year parts the texts are put together from
DayTexts ==
    {<<"0", "1">>, <<"1">>, <<" ", "1">>, <<"2", "9">>, <<"3", "0">>, <<"3", "1">>,
     <<"3", "2">>, <<"0", "0">>, <<"0">>, <<"a">>}
MonthTexts ==
    {<<"0", "2">>, <<"2">>, <<"0", "4">>, <<"1", "2">>, <<"1", "3">>, <<"0", "0">>}
YearTexts ==
    {<<"2", "0", "2", "0">>, <<"2", "0", "2", "1">>, <<"1", "9", "0", "0">>,
     <<"0", "9", "9", "9">>, <<"0", "0", "0", "0">>, <<"9", "9", "9">>,
     <<"2", "0", "2", "0", "1">>}

\* The texts a birthday is built from: the parts joined by '.', by '-', and
\* the empty text
BirthdayTexts ==
    {d \o <<sep>> \o m \o <<sep>> \o y :
        d \in DayTexts, m \in MonthTexts, y \in YearTexts, sep \in {".", "-"}}
    \cup {<<>>}

InitBirthdayText ==
    /\ book = <<>>
    /\ notes = <<>>
    /\ pc = "input"
    /\ disk = [ab |-> NoFile, nb |-> NoFile]
    /\ hist = NoHist
    /\ \E value \in BirthdayTexts :
          last = [NoCall EXCEPT !.cmd = "value", !.args = <<value>>]

\* Birthday(value) is called on the text drawn
ConstructBirthday ==
    /\ last.cmd = "value"
    /\ LET b == Birthday(last.args[1])
       IN  last' = [cmd |-> "Birthday", args |-> last.args,
                    today |-> IF b.ok THEN b.date ELSE NoClock,
                    raised |-> IF b.ok THEN "none" ELSE "ValueError",
                    msg |-> IF b.ok THEN <<>> ELSE BirthdayError,
                    data |-> IF b.ok THEN <<b>> ELSE <<>>]
    /\ UNCHANGED <<book, notes, pc, disk, hist>>

\* str() of the birthday constructed, on one of the C libraries
RenderBirthday ==
    /\ last.cmd = "Birthday"
    /\ last.raised = "none"
    /\ \E libc \in CLibraries :
          last' = [last EXCEPT !.cmd = "str",
                               !.msg = StrftimeOn(last.data[1].date, libc)]
    /\ UNCHANGED <<book, notes, pc, disk, hist>>

NextBirthdayText == ConstructBirthday \/ RenderBirthday

SpecBirthdayText == InitBirthdayText /\ [][NextBirthdayText]_vars

\* The texts of the form DD.MM.YYYY, with a day and a month of one or two
\* digits each, and the parts they are made of
DateForm(t, i, j) ==
    /\ Len(t) = i + j + 6
    /\ t[i + 1] = "."
    /\ t[i + j + 2] = "."
    /\ \A k \in (1..Len(t)) \ {i + 1, i + j + 2} : t[k] \in AsciiDigits

\* Whether the text is of that form and names a day of the calendar
NamesRealDate(t) ==
    \E i \in 1..2, j \in 1..2 :
        /\ DateForm(t, i, j)
        /\ ValidDate(IntOf(SubSeq(t, i + j + 3, i + j + 6)),
                     IntOf(SubSeq(t, i + 2, i + j + 1)),
                     IntOf(SubSeq(t, 1, i)))

\* Whether the text is of that form with two digits for the day and the month
ZeroPadded(t) == Len(t) = 10 /\ DateForm(t, 2, 2)

\* The zero-padded form DD.MM.YYYY of a date
ZeroPaddedForm(dt) ==
    TwoDigits(dt.d) \o <<".">> \o TwoDigits(dt.m) \o <<".">> \o FourDigits(dt.y)

\* C23: Birthday construction succeeds for every text DD.MM.YYYY that names a
\* real calendar date and fails for every other text; the string rendered
\* for a constructed Birthday is the zero-padded form of the parsed date,
\* and equals the input whenever the input was zero-padded.
BirthdayParsesAndRendersPadded ==
    /\ last.cmd = "Birthday" => (last.raised = "none" <=> NamesRealDate(last.args[1]))
    /\ last.cmd = "str" =>
          /\ last.msg = ZeroPaddedForm(last.today)
          /\ ZeroPadded(last.args[1]) => last.msg = last.args[1]

\* The same for the texts without a blank and with a year from 1000 on
BirthdayParsesAndRendersFrom1000 ==
    (/\ last.cmd \in {"Birthday", "str"}
     /\ \A k \in 1..Len(last.args[1]) : last.args[1][k] # " "
     /\ last.raised = "none" => last.today.y >= 1000) =>
        /\ last.raised = "none" <=> NamesRealDate(last.args[1])
        /\ last.cmd = "str" =>
              /\ last.msg = ZeroPaddedForm(last.today)
              /\ ZeroPadded(last.args[1]) => last.msg = last.args[1]

-----------------------------------------------------------------------------
(* Lookups in the command registry *)

\* The names the specification lists
ListedCommands ==
    {"add-contact", "edit-phone", "add-phone", "remove-phone", "edit-email",
     "edit-birthday", "edit-address", "edit-name", "show-contact", "show-contacts",
     "search-contacts", "delete-contact", "birthdays", "add-note", "remove-note",
     "show-all-notes", "show-note", "search-notes", "edit-note", "search-notes-by-tag",
     "sort-notes-by-tag", "add-tag-to-note", "remove-tag-from-note", "help", "exit",
     "close"}

\* Names that are not listed: the empty name, the names main.py matches, the
\* names of the handlers, and each listed name in capitals, with a blank
\* after it or cut after its first part
UnlistedNames ==
    {"", "hello", "add", "change", "phone", "all", "delete", "add-birthday",
     "show-birthday", "add-address", "add-email", "edit-fields", "quit", "bye",
     "Help", "HELP", "Exit", "EXIT", "Close", "ADD-CONTACT", "Add-Contact",
     "add_contact", "edit_phone", "add_phone", "remove_phone", "edit_email",
     "edit_birthday", "edit_address", "edit_name", "show_contact", "show_contacts",
     "search_contacts", "delete_contact", "add_note", "remove_note", "show_all_notes",
     "show_note", "search_notes", "edit_note", "search_notes_by_tag",
     "sort_notes_by_tag", "add_tag_to_note", "remove_tag_from_note", "lambda",
     "add-contact ", " add-contact", "help ", "exit ", "show", "edit", "remove",
     "search", "sort", "birthday", "show-notes", "add-tag", "remove-tag", "notes",
     "contacts", "show-all", "edit-contact", "add-contacts"}

\* The names looked up
LookedUp == ListedCommands \cup UnlistedNames

\* registry.get_command(name)
GetCommand ==
    \E name \in LookedUp :
        /\ last' = [NoCall EXCEPT !.cmd = "get_command", !.args = <<name>>,
                                  !.data = get_command(name)]
        /\ UNCHANGED <<book, notes, pc, disk, hist>>

\* registry.is_valid_command(name)
IsValidCommand ==
    \E name \in LookedUp :
        /\ last' = [NoCall EXCEPT !.cmd = "is_valid_command", !.args = <<name>>,
                                  !.data = <<is_valid_command(name)>>]
        /\ UNCHANGED <<book, notes, pc, disk, hist>>

NextRegistry == GetCommand \/ IsValidCommand

SpecRegistry == Init /\ [][NextRegistry]_vars

\* C24: the registry holds an entry with a handler for every listed command
\* name and for no other name; get_command returns the entry of a listed
\* name and nothing for any other name, and is_valid_command is true exactly
\* when get_command returns an entry.
RegistryHoldsListedCommands ==
    /\ DOMAIN Registry = ListedCommands
    /\ \A name \in ListedCommands :
          Registry[name].name = name /\ Registry[name].handler # ""
    /\ last.cmd = "get_command" =>
          /\ last.args[1] \in ListedCommands =>
                Len(last.data) = 1 /\ last.data[1].name = last.args[1]
          /\ last.args[1] \notin ListedCommands => last.data = <<>>
    /\ last.cmd = "is_valid_command" =>
          last.data = <<get_command(last.args[1]) # <<>>>>

\* An entry was returned for a listed name
GotListedCommand ==
    /\ last.cmd = "get_command"
    /\ last.args = <<"sort-notes-by-tag">>
    /\ last.data = <<Registry["sort-notes-by-tag"]>>
    /\ last.data[1].handler = "sort_notes_by_tag"

-----------------------------------------------------------------------------
(* add-contact with optional fields that are not valid *)

\* A second valid email
E2 == <<"d", "@", "e", ".", "f">>

\* A text with a second '@' after a valid email
TwoAtEmail == <<"a", "@", "b", ".", "c", "@", "d">>

NextAddContact ==
    \/ AddContact({<<NameA, P1>>, <<NameA, P1, E1, Bd3>>, <<NameA, P2, BadEmail>>,
                   <<NameA, P2, BadEmail, Bd1>>, <<NameA, P1, E2, BadBd>>,
                   <<NameA, P2, BadEmail, BadBd>>, <<NameB, P2, BadEmail, Bd3>>,
                   <<NameB, P1, E1, BadBd>>, <<NameA, P1, TwoAtEmail>>})
    \/ EditEmail({<<NameA, E1>>})
    \/ EditBirthday({<<NameA, Bd3>>, <<NameB, Bd1>>})
    \/ RemovePhone({<<NameA, P1>>, <<NameA, P2>>})
    \/ ShowContacts({<<>>})
    \/ DeleteContact({<<NameA>>, <<NameB>>})

SpecAddContact == Init /\ [][NextAddContact]_vars

\* The record stored under a name, a new one when the book holds none
RecordBefore(b, name) == IF name \in Keys(b) THEN b[KeyIndex(b, name)].rec ELSE Record(name)

\* What the claim says of the step that ran add-contact with a valid phone,
\* an email and perhaps a birthday, of which email_ok and birthday_ok tell
\* whether they are valid
AddsAndNamesFieldError(args, b, after, msg, email_ok, birthday_ok) ==
    LET name == args[1]
        before == RecordBefore(b, name)
        rec == RecordBefore(after, name)
    IN  /\ Keys(after) = Keys(b) \cup {name}
        /\ \A k \in Keys(b) \ {name} : RecordBefore(after, k) = RecordBefore(b, k)
        /\ rec.phones = before.phones \o <<args[2]>>
        /\ rec.address = before.address
        /\ rec.email = IF email_ok THEN Some(args[3]) ELSE before.email
        /\ rec.birthday = IF Len(args) = 4 /\ birthday_ok
                          THEN Some([value |-> args[4], date |-> Strptime(args[4]).date])
                          ELSE before.birthday
        /\ ~IsErrorResult(msg)
        /\ Head(msg) \in {"Contact added.", "Contact updated."}
        /\ ~email_ok => \E i \in 1..Len(msg) : msg[i] = " Email error: "
        /\ (Len(args) = 4 /\ ~birthday_ok) =>
              \E i \in 1..Len(msg) : msg[i] = " Birthday error: "

\* Whether the arguments are a name, a valid phone, an email and perhaps a
\* birthday
WithOptionalFields(args) ==
    /\ Len(args) \in 3..4
    /\ Phone(args[2]).ok
    /\ \A i \in 3..Len(args) : Truthy(args[i])

\* C30: add-contact with a valid phone and an invalid optional email or
\* birthday still adds or updates the contact and appends the phone, leaves
\* the contact's previous value of the invalid field unchanged (absent for a
\* new contact), still applies the other optional field when it is valid,
\* and returns a non-error message that names the field error.  An email is
\* valid when it is of the form local@domain with one '@', a birthday when
\* it is a text DD.MM.YYYY that names a real calendar date.
AddContactSurvivesFieldError ==
    [][(/\ last'.cmd = "add-contact"
        /\ WithOptionalFields(last'.args)
        /\ \/ ~ClaimedEmail(last'.args[3])
           \/ Len(last'.args) = 4 /\ ~NamesRealDate(last'.args[4])) =>
           AddsAndNamesFieldError(last'.args, book, book', last'.msg,
                                  ClaimedEmail(last'.args[3]),
                                  Len(last'.args) = 4 /\ NamesRealDate(last'.args[4]))]_vars

\* The same with the fields taken for invalid that Email and Birthday refuse
AddContactSurvivesRefusedField ==
    [][(/\ last'.cmd = "add-contact"
        /\ WithOptionalFields(last'.args)
        /\ \/ ~Email(last'.args[3]).ok
           \/ Len(last'.args) = 4 /\ ~Birthday(last'.args[4]).ok) =>
           AddsAndNamesFieldError(last'.args, book, book', last'.msg,
                                  Email(last'.args[3]).ok,
                                  Len(last'.args) = 4 /\ Birthday(last'.args[4]).ok)]_vars

-----------------------------------------------------------------------------
(* The steps of the command loop *)

\* The commands the registry registers to end the loop
Sentinels == {"exit", "close"}

\* The files the program may find when it starts: none, one that cannot be
\* read, and the address book an earlier run saved
StartFiles ==
    {NoFile, [st |-> "corrupt", obj |-> <<>>],
     save_addressbook(NoFile, add_record(<<>>, [Record(NameA) EXCEPT !.phones = <<P1>>]),
                      "written")}

\* main() up to the loop: both collections are loaded
InitMain ==
    /\ \E file \in StartFiles :
          /\ disk = [ab |-> file, nb |-> NoFile]
          /\ book = load_addressbook(file)
    /\ notes = load_notebook(NoFile)
    /\ last = NoCall
    /\ pc = "input"
    /\ hist = NoHist

\* The lines typed in the model
MainLines ==
    {Line("", <<>>), Line("Exit", <<>>), Line("close", <<>>), Line("hello", <<>>),
     Line("help", <<>>), Line("bogus", <<NameA>>),
     Line("ADD", <<NameA, P1>>), Line("change", <<NameA, P1, P2>>),
     Line("phone", <<NameA>>), Line("all", <<>>), Line("delete", <<NameA>>),
     Line("add-birthday", <<NameA, Bd3>>), Line("add-address", <<NameA>>),
     Line("add-email", <<NameA, BadEmail>>), Line("edit-fields", <<NameA>>),
     Line("show-birthday", <<NameA>>),
     Line("add-note", <<NameA, Addr1, TagY>>), Line("remove-note", <<NameA>>),
     Line("show-all-notes", <<>>), Line("search-notes", <<Addr1>>),
     Line("edit-note", <<NameB>>), Line("search-notes-by-tag", <<TagY>>),
     Line("sort-notes-by-tag", <<>>), Line("add-tag-to-note", <<NameB, TagX>>),
     Line("remove-tag-from-note", <<NameA, TagY>>)}

\* The state after input() returned a line that parse_input cut into p
Read(p) ==
    /\ last' = [NoCall EXCEPT !.cmd = p.command, !.args = p.args]
    /\ hist' = IF hist.term = "none" /\ p.command \in Sentinels
               THEN [hist EXCEPT !.term = p.command, !.at = pc]
               ELSE hist
    /\ pc' = "match"
    /\ UNCHANGED <<book, notes, disk>>

\* user_input = input(...); command, args = parse_input(user_input)
ReadInput ==
    /\ pc = "input"
    /\ \E user_input \in MainLines : Read(parse_input(user_input))

\* case "close" | "exit": break
Break ==
    /\ pc = "match"
    /\ Breaks(last.cmd)
    /\ pc' = "finally"
    /\ UNCHANGED <<book, notes, last, disk, hist>>

\* case "": continue
Continue ==
    /\ pc = "match"
    /\ ~Breaks(last.cmd)
    /\ last.cmd = ""
    /\ pc' = "input"
    /\ UNCHANGED <<book, notes, last, disk, hist>>

\* A command that runs after the loop was told to end
Ran == [hist EXCEPT !.after = IF hist.term # "none" THEN 1 ELSE @]

\* case "hello", case "help" and case _: a text is printed
Answer ==
    /\ pc = "match"
    /\ ~Breaks(last.cmd)
    /\ last.cmd \notin BookArms \cup NoteArms \cup {""}
    /\ last' = [last EXCEPT !.msg =
                   IF last.cmd = "hello" THEN <<"How can I help you?">>
                   ELSE IF last.cmd = "help" THEN <<"Available Commands">>
                   ELSE <<"Invalid command. Type 'help' for available commands.">>]
    /\ hist' = Ran
    /\ pc' = "input"
    /\ UNCHANGED <<book, notes, disk>>

\* The state after the handler of an arm left the collections b and nb and
\* returned o
Handled(b, nb, o, saves) ==
    /\ WithinBounds(b, nb)
    /\ book' = b
    /\ notes' = nb
    /\ last' = [last EXCEPT !.raised = o.raised, !.msg = o.msg, !.data = o.data]
    /\ hist' = Ran
    /\ pc' = IF saves THEN "save" ELSE "input"
    /\ UNCHANGED disk

\* An arm that calls a handler on the address book: the handler runs
RunBookCommand ==
    /\ pc = "match"
    /\ ~Breaks(last.cmd)
    /\ last.cmd \in BookArms
    /\ Handled(BookArm(last.cmd, last.args, book).coll, notes,
               BookArm(last.cmd, last.args, book), SavesAddressbook(last.cmd))

\* An arm that calls a handler on the note book: the handler runs
RunNoteCommand ==
    /\ pc = "match"
    /\ ~Breaks(last.cmd)
    /\ last.cmd \in NoteArms
    /\ Handled(book, NoteArm(last.cmd, last.args, notes).coll,
               NoteArm(last.cmd, last.args, notes), SavesNotebook(last.cmd))

\* save_addressbook(addressbook) at the end of an arm
SaveBook ==
    /\ pc = "save"
    /\ SavesAddressbook(last.cmd)
    /\ \E outcome \in SaveOutcomes :
          /\ disk' = [disk EXCEPT !.ab = save_addressbook(@, book, outcome)]
          /\ hist' = [hist EXCEPT !.ok.ab = (outcome = "written")]
    /\ pc' = "input"
    /\ UNCHANGED <<book, notes, last>>

\* save_notebook(notebook, silentmode=True) at the end of an arm
SaveNotes ==
    /\ pc = "save"
    /\ SavesNotebook(last.cmd)
    /\ \E outcome \in SaveOutcomes :
          /\ disk' = [disk EXCEPT !.nb = save_notebook(@, notes, outcome)]
          /\ hist' = [hist EXCEPT !.ok.nb = (outcome = "written")]
    /\ pc' = "input"
    /\ UNCHANGED <<book, notes, last>>

\* Ctrl+C while input() waits or while an arm runs: except KeyboardInterrupt
Interrupt ==
    /\ pc \in {"input", "match", "save"}
    /\ hist' = IF hist.term = "none"
               THEN [hist EXCEPT !.term = "KeyboardInterrupt", !.at = pc]
               ELSE hist
    /\ pc' = "finally"
    /\ UNCHANGED <<book, notes, last, disk>>

\* input() raises EOFError: no except clause takes it, the finally clause runs
EndOfInput ==
    /\ pc = "input"
    /\ hist' = [hist EXCEPT !.term = "EOFError", !.at = pc]
    /\ pc' = "finally"
    /\ UNCHANGED <<book, notes, last, disk>>

\* finally: save_addressbook(addressbook); save_notebook(notebook)
Finally ==
    /\ pc = "finally"
    /\ \E first \in SaveOutcomes, second \in SaveOutcomes :
          /\ disk' = [ab |-> save_addressbook(disk.ab, book, first),
                      nb |-> save_notebook(disk.nb, notes, second)]
          /\ hist' = [hist EXCEPT
                         !.saves = @ \o <<[coll |-> "ab", obj |-> book],
                                          [coll |-> "nb", obj |-> notes]>>,
                         !.ok = [ab |-> first = "written", nb |-> second = "written"]]
    /\ pc' = "done"
    /\ UNCHANGED <<book, notes, last>>

NextMain ==
    \/ ReadInput
    \/ Break
    \/ Continue
    \/ Answer
    \/ RunBookCommand
    \/ RunNoteCommand
    \/ SaveBook
    \/ SaveNotes
    \/ Interrupt
    \/ EndOfInput
    \/ Finally

SpecMain == InitMain /\ [][NextMain]_vars

SavedOnceAtEnd ==
    /\ hist.after = 0
    /\ pc = "done" =>
          /\ hist.term \in Sentinels \cup {"KeyboardInterrupt", "EOFError"}
          /\ hist.saves = <<[coll |-> "ab", obj |-> book], [coll |-> "nb", obj |-> notes]>>
          /\ hist.ok.ab => load_addressbook(disk.ab) = book
          /\ hist.ok.nb => load_notebook(disk.nb) = notes

\* The loop was interrupted between a handler that changed the book and the
\* save of its arm, and the program has finished
InterruptedBeforeSave ==
    /\ pc = "done"
    /\ hist.term = "KeyboardInterrupt"
    /\ hist.at = "save"
    /\ last.cmd = "add"
    /\ last.msg = <<"Contact added.">>
    /\ hist.ok.ab
    /\ book # <<>>

=============================================================================
